---- MODULE Spec2Model ----
(***************************************************************************)
(* Rule-based chatbot (Chatbot/Demo1/bot.py, Chatbot/Demo2/chatbot.py):    *)
(* intent scoring and classification, the action hooks, the per-turn       *)
(* orchestration (get_response) and the chat loop.                         *)
(*                                                                         *)
(* Representation.  A text is a sequence of words (the utterance with its  *)
(* words separated by single blanks); a word is a string.  Scores are kept *)
(* in quarters (2.0 is 8, 0.5 is 2) so that the context penalty, a         *)
(* halving, is exact.  A regular expression is a phrase: a sequence of     *)
(* word sets matched against consecutive words, with capture groups over   *)
(* spans of the phrase, an optional trailing "(.+)" group, and the         *)
(* anchors ^ and $.  Python's None is the string "None" for tags and 0 for *)
(* an intent index; a raised exception is a result record whose raised     *)
(* field names it.                                                         *)
(***************************************************************************)
EXTENDS Integers, Sequences, FiniteSets, TLC

VARIABLES
    variant,          \* 1: Demo1/bot.py, 2: Demo2/chatbot.py
    intents,          \* AdvancedChatbot.intents, the catalog
    current_context,  \* ConversationContext.current_context
    user_data,        \* ConversationContext.user_data
    history,          \* ConversationContext.history
    running,          \* the chat loop has not left its while loop
    op,               \* the operation that produced the current state
    utterance,        \* the text handed to the last call
    ctx_before,       \* current_context when the last call began
    ud_before,        \* user_data when the last call began
    scores,           \* the score _score_intent returned for each intent
    ret_intent,       \* the intent classify_intent returned (0: None)
    ret_match,        \* the match classify_intent returned
    action_result,    \* whether an action ran, what it returned or raised
    response,         \* what get_response returned
    raised,           \* the exception the last call raised ("None": none)
    ctx_writes,       \* set_context/clear_context calls of the last turn
    calc_match,       \* the match handed to _calculate called on its own
    calc_out,         \* what that call returned or raised
    config,           \* Demo2: the configuration handed to the constructor
    ctor,             \* Demo2: what the constructor built, raised and gave
    exported,         \* the list get_conversation_history gave its caller
    analysis,         \* what SentimentAnalyzer.analyze returned on its own
    fill_arg,         \* the text handed to _fill_template called on its own
    board,            \* game.py: the nine cells of the board
    turn,             \* game.py: play_one's turn
    idx,              \* game.py: the cell the last move chose ("None": none)
    result,           \* game.py: what play_one returned ("None": not yet)
    again,            \* game.py: the answer read at "Play again? (y/n)"
    game_pc           \* game.py: where the program is

vars == <<variant, intents, current_context, user_data, history, running, op,
          utterance, ctx_before, ud_before, scores, ret_intent, ret_match,
          action_result, response, raised, ctx_writes, calc_match, calc_out,
          config, ctor, exported, analysis, fill_arg, board, turn, idx,
          result, again, game_pc>>

\* the variables of game.py
game_vars == <<board, turn, idx, result, again, game_pc>>

-----------------------------------------------------------------------------
(* Bounds of the model. *)

\* most exchanges of a session that saves and lists notes or favorites
MaxSaves == 3
\* longest utterance, in words, handed to classify_intent on its own
MaxLen == 3
\* most exchanges a chat session records before the model stops it
MaxTurns == 2
\* longest captured expression, in words, handed to _calculate on its own
MaxExprLen == 3
\* intent entries of a configuration
MaxEntries == 2

-----------------------------------------------------------------------------
(* Python values. *)

None == "None"

\* a re.Match: owner and pat name the intent and pattern that produced it,
\* g0 is group(0), groups are group(1)..group(lastindex)
NoMatch == [some |-> FALSE, owner |-> 0, pat |-> 0, g0 |-> <<>>, groups |-> <<>>]

\* match.lastindex: the number of the last group, 0 standing for the None
\* of a match without groups
lastindex(m) == Len(m.groups)

\* the empty dict
EmptyDict == [k \in {} |-> None]

\* dict.get(key, default)
DictGet(d, key, default) == IF key \in DOMAIN d THEN d[key] ELSE default

\* a set_user_data that forgets the other keys
DictSetAlone(d, key, value) == key :> value

\* d[key] = value
DictSet(d, key, value) == (key :> value) @@ d

\* str.lower() of one word; the words of the model are lower case but these
lower(w) ==
    CASE w = "Alex" -> "alex"
      [] w = "May" -> "may"
      [] w = "Great" -> "great"
      [] w = "Band" -> "band"
      [] w = "Born" -> "born"
      [] w = "Note" -> "note"
      [] w = "Notes" -> "notes"
      [] w = "Like" -> "like"
      [] w = "Okay" -> "okay"
      [] w = "I" -> "i"
      [] w = "Am" -> "am"
      [] w = "How" -> "how"
      [] w = "Doing" -> "doing"
      [] w = "Who" -> "who"
      [] w = "Call" -> "call"
      [] w = "Name" -> "name"
      [] w = "Calculate" -> "calculate"
      [] w = "Math" -> "math"
      [] OTHER -> w

\* str.lower() of a text
lower_text(text) == [k \in 1..Len(text) |-> lower(text[k])]

\* str.title() of one lower-case word: the first letter in upper case;
\* a word that begins with a digit or an operator is unchanged
title(w) ==
    CASE w = "alex" -> "Alex"
      [] w = "great" -> "Great"
      [] w = "okay" -> "Okay"
      [] w = "may" -> "May"
      [] w = "i" -> "I"
      [] w = "am" -> "Am"
      [] w = "how" -> "How"
      [] w = "doing" -> "Doing"
      [] w = "who" -> "Who"
      [] w = "call" -> "Call"
      [] w = "name" -> "Name"
      [] w = "calculate" -> "Calculate"
      [] w = "math" -> "Math"
      [] w = "born" -> "Born"
      [] w = "note" -> "Note"
      [] w = "notes" -> "Notes"
      [] w = "band" -> "Band"
      [] w = "like" -> "Like"
      [] OTHER -> w

\* str.split(): the set of whitespace-delimited words
split_set(text) == {text[k] : k \in 1..Len(text)}

-----------------------------------------------------------------------------
(* re.search on phrases. *)

\* the phrase of p matches the words of text that begin at pos
MatchesAt(p, text, pos) ==
    /\ pos + Len(p.elems) - 1 <= Len(text)
    /\ \A k \in 1..Len(p.elems) : text[pos + k - 1] \in p.elems[k]
    /\ p.atStart => pos = 1
    /\ IF p.rest
       THEN pos + Len(p.elems) <= Len(text)
       ELSE p.atEnd => pos + Len(p.elems) - 1 = Len(text)

\* re.search(pattern, text): the leftmost match, or None
re_search(p, text) ==
    LET at == {pos \in 1..Len(text) : MatchesAt(p, text, pos)}
    IN  IF at = {} THEN NoMatch
        ELSE LET pos == CHOOSE x \in at : \A y \in at : x <= y
                 last == IF p.rest THEN Len(text) ELSE pos + Len(p.elems) - 1
                 inner == [g \in 1..Len(p.groups) |->
                            SubSeq(text, pos + p.groups[g][1] - 1,
                                         pos + p.groups[g][2] - 1)]
                 tail == IF p.rest
                         THEN <<SubSeq(text, pos + Len(p.elems), Len(text))>>
                         ELSE <<>>
             IN  [some |-> TRUE, owner |-> 0, pat |-> 0,
                  g0 |-> SubSeq(text, pos, last), groups |-> inner \o tail]

-----------------------------------------------------------------------------
(* Word classes of the regular expressions, over the words of the model. *)

\* words that \w+ matches whole
WordClass == {"i", "am", "alex", "great", "okay", "how", "doing", "who",
              "call", "name", "calculate", "math", "born", "may", "note",
              "notes", "like", "band", "jazz", "is", "5", "0"}
\* words that \d+ matches whole
DigitClass == {"5", "0"}
\* words that [\+\-\*\/] matches whole
OperatorClass == {"+", "-", "*", "/"}

\* a phrase without anchors: elems are the word sets, groups the spans
\* <<first, last>> of the capture groups in the order of their "("
Phrase(elems, groups) ==
    [ok |-> TRUE, elems |-> elems, groups |-> groups, rest |-> FALSE,
     atStart |-> FALSE, atEnd |-> FALSE]
\* a phrase followed by " (.+)"
PhraseRest(elems, groups) == [Phrase(elems, groups) EXCEPT !.rest = TRUE]
\* a phrase followed by $
PhraseEnd(elems, groups) == [Phrase(elems, groups) EXCEPT !.atEnd = TRUE]
\* a phrase between ^ and $
PhraseWhole(elems, groups) ==
    [Phrase(elems, groups) EXCEPT !.atStart = TRUE, !.atEnd = TRUE]
\* a regular expression that does not compile
BadPattern == [Phrase(<<>>, <<>>) EXCEPT !.ok = FALSE]

-----------------------------------------------------------------------------
(* The catalogs. *)

\* the Intent dataclass
Intent(name, patterns, keywords, responses, context_set, context_required, action) ==
    [name |-> name, patterns |-> patterns, keywords |-> keywords,
     responses |-> responses, context_set |-> context_set,
     context_required |-> context_required, action |-> action]

\* Demo1, AdvancedChatbot._setup_intents: the intents whose patterns or
\* keywords contain a word of the model, in their order of declaration.
\* The alternatives "what's", "i'm" and "how's" of the source's patterns are
\* single words outside the model's vocabulary, and so are the words of the
\* alternative "see you".
Demo1Intents == <<
    Intent("farewell",
        <<Phrase(<<{"bye", "goodbye", "farewell", "quit", "exit"}>>,
                 <<<<1, 1>>>>),
          PhraseWhole(<<{"bye", "quit", "exit"}>>, <<<<1, 1>>>>)>>,
        <<"bye", "goodbye", "quit", "exit">>,
        <<<<"Goodbye! It was great chatting with you!">>,
          <<"See you later! Take care!">>,
          <<"Farewell! Come back anytime you want to chat!">>>>,
        None, None, None),
    Intent("ask_bot_name",
        <<Phrase(<<{"what"}, {"is"}, {"your"}, {"name"}>>, <<<<2, 2>>>>),
          Phrase(<<{"who"}, {"are"}, {"you"}>>, <<>>),
          Phrase(<<{"your"}, {"name"}>>, <<>>)>>,
        <<"name", "who", "called">>,
        <<<<"I'm", "{bot_name}", ", your AI assistant!">>,
          <<"You can call me", "{bot_name}", ". Nice to meet you!">>,
          <<"My name is", "{bot_name}", ". How can I help?">>>>,
        None, None, None),
    Intent("user_name",
        <<Phrase(<<{"my"}, {"name"}, {"is"}, WordClass>>, <<<<4, 4>>>>),
          Phrase(<<{"i'm"}, WordClass>>, <<<<2, 2>>>>),
          Phrase(<<{"call"}, {"me"}, WordClass>>, <<<<3, 3>>>>),
          Phrase(<<{"i"}, {"am"}, WordClass>>, <<<<3, 3>>>>)>>,
        <<"name", "call", "am">>,
        <<<<"Nice to meet you,", "{user_name}", "! How can I help you today?">>,
          <<"Hello", "{user_name}", "! Great to have you here.">>,
          <<"Welcome,", "{user_name}", "! What would you like to chat about?">>>>,
        None, None, "store_name_lambda"),
    Intent("how_are_you",
        <<Phrase(<<{"how"}, {"are"}, {"you"}>>, <<>>),
          Phrase(<<{"how"}, {"is"}, {"it"}, {"going"}>>, <<<<2, 2>>>>),
          Phrase(<<{"how"}, {"do"}, {"you"}, {"feel"}>>, <<>>),
          Phrase(<<{"you"}, {"doing"}>>, <<>>)>>,
        <<"how", "feeling", "doing">>,
        <<<<"I'm doing great, thanks for asking! How about you?">>,
          <<"I'm excellent! Ready to help with whatever you need.">>,
          <<"Feeling fantastic! What can I do for you today?">>>>,
        "asked_user_feeling", None, None),
    Intent("user_feeling_good",
        <<Phrase(<<{"i"}, {"am"},
                   {"good", "great", "fine", "okay", "excellent", "happy"}>>,
                 <<<<2, 2>>, <<3, 3>>>>),
          PhraseEnd(<<{"good", "great", "fine", "excellent", "happy"}>>,
                    <<<<1, 1>>>>),
          Phrase(<<{"doing"}, {"well", "good", "great"}>>, <<<<2, 2>>>>)>>,
        <<"good", "great", "fine", "happy", "well">>,
        <<<<"Wonderful to hear! What would you like to talk about?">>,
          <<"That's great! Is there anything I can help you with?">>,
          <<"Awesome! I'm glad you're doing well.">>>>,
        None, "asked_user_feeling", None),
    Intent("calculate",
        <<PhraseRest(<<{"calculate"}>>, <<>>),
          Phrase(<<{"what"}, {"is"}, DigitClass, OperatorClass, DigitClass>>,
                 <<<<2, 2>>, <<3, 5>>>>),
          Phrase(<<DigitClass, OperatorClass, DigitClass>>, <<<<1, 3>>>>)>>,
        <<"calculate", "math", "+", "-", "*", "/">>,
        <<<<"Let me calculate that...">>>>,
        None, None, "calculate")
>>

\* Demo2, AdvancedChatbot._build_intents: the catalog built from a
\* chatbot_intents.json that validate_config accepts
Demo2Intents == <<
    Intent("user_name",
        <<Phrase(<<{"i"}, {"am"}, WordClass>>, <<<<3, 3>>>>)>>,
        <<"name", "am">>,
        <<<<"Nice to meet you,", "{user_name}", "!">>>>,
        None, None, "store_user_name"),
    Intent("how_are_you",
        <<Phrase(<<{"how"}, {"are"}, {"you"}>>, <<>>)>>,
        <<"how", "doing">>,
        <<<<"I'm", "{bot_name}", "and I'm fine. And you?">>>>,
        "asked_user_feeling", None, None),
    Intent("user_feeling_good",
        <<PhraseEnd(<<{"good", "great"}>>, <<<<1, 1>>>>)>>,
        <<"good", "great">>,
        <<<<"Glad to hear it,", "{user_name}", "!">>>>,
        None, "asked_user_feeling", None),
    Intent("user_birthday",
        <<PhraseRest(<<{"born"}>>, <<>>),
          Phrase(<<{"born"}>>, <<>>)>>,
        <<"born", "birthday">>,
        <<<<"I will remember", "{user_birthday}", ".">>>>,
        "told_birthday", None, "store_user_birthday"),
    Intent("save_note",
        <<PhraseRest(<<{"note"}>>, <<>>)>>,
        <<"note", "remember">>,
        <<<<"Noted.">>>>,
        None, None, "store_user_note"),
    Intent("show_notes",
        <<Phrase(<<{"notes"}>>, <<>>)>>,
        <<"notes">>,
        <<<<"Here are your notes.">>>>,
        "viewing_notes", None, "show_user_notes"),
    Intent("favorites",
        <<PhraseRest(<<{"like"}, WordClass>>, <<<<2, 2>>>>)>>,
        <<"like", "favorite">>,
        <<<<"Good choice!">>>>,
        None, None, "add_favorites"),
    Intent("calculate",
        <<PhraseRest(<<{"calculate"}>>, <<>>)>>,
        <<"calculate", "math", "+">>,
        <<<<"Let me calculate that...">>>>,
        None, None, "calculate")
>>

\* the catalog of a variant
Catalog(v) == IF v = 1 THEN Demo1Intents ELSE Demo2Intents

-----------------------------------------------------------------------------
(* _score_intent and classify_intent. *)

\* score += 2.0 for a matching pattern
PATTERN_WEIGHT == 8
\* score += 0.5 for a matching keyword
KEYWORD_WEIGHT == 2
\* score += 1.0 when the required context is the current one
CONTEXT_BONUS == 4
\* best_score > 0.5
THRESHOLD == 2

\* the exception a pattern loop of the variant lets escape: Demo1 calls
\* re.search bare, Demo2 inside try/except re.error
pattern_error(v, patterns) ==
    IF v = 1 /\ \E k \in 1..Len(patterns) : ~patterns[k].ok
    THEN "re.error" ELSE None

\* for pattern in intent.patterns: if re.search(...): score += 2.0
RECURSIVE pattern_score(_, _, _)
pattern_score(patterns, text_lower, k) ==
    IF k > Len(patterns) THEN 0
    ELSE (IF patterns[k].ok /\ re_search(patterns[k], text_lower).some
          THEN PATTERN_WEIGHT ELSE 0)
         + pattern_score(patterns, text_lower, k + 1)

\* Demo1: len(words & set(intent.keywords)) * 0.5
keyword_score_demo1(keywords, words) ==
    Cardinality(words \cap {keywords[k] : k \in 1..Len(keywords)})
        * KEYWORD_WEIGHT

\* Demo2: for keyword in intent.keywords: if keyword.lower() in text_words
RECURSIVE keyword_score_demo2(_, _, _)
keyword_score_demo2(keywords, words, k) ==
    IF k > Len(keywords) THEN 0
    ELSE (IF lower(keywords[k]) \in words THEN KEYWORD_WEIGHT ELSE 0)
         + keyword_score_demo2(keywords, words, k + 1)

\* context_adjust without the penalty of the absent context
context_adjust_no_penalty(score, context_required, ctx) ==
    IF context_required # None /\ context_required # "" /\ ctx = context_required
    THEN score + CONTEXT_BONUS
    ELSE score

\* the context adjustment that ends _score_intent
context_adjust(score, context_required, ctx) ==
    IF context_required # None /\ context_required # ""
    THEN IF ctx = context_required
         THEN score + CONTEXT_BONUS
         ELSE score \div 2
    ELSE score

\* _score_intent(intent, text) with self.context.current_context = ctx
score_intent(v, intent, text, ctx) ==
    LET text_lower == lower_text(text)
        words == split_set(text_lower)
        kw == IF v = 1 THEN keyword_score_demo1(intent.keywords, words)
              ELSE keyword_score_demo2(intent.keywords, words, 1)
    IN  [raised |-> pattern_error(v, intent.patterns),
         score |-> context_adjust(
                       pattern_score(intent.patterns, text_lower, 1) + kw,
                       intent.context_required, ctx)]

\* a first_match that keeps the last pattern that matches
RECURSIVE last_match(_, _, _, _)
last_match(patterns, text_lower, owner, k) ==
    IF k > Len(patterns) THEN NoMatch
    ELSE IF last_match(patterns, text_lower, owner, k + 1).some
    THEN last_match(patterns, text_lower, owner, k + 1)
    ELSE IF patterns[k].ok /\ re_search(patterns[k], text_lower).some
    THEN [re_search(patterns[k], text_lower) EXCEPT !.owner = owner, !.pat = k]
    ELSE NoMatch

\* the inner loop of classify_intent: the match of the first pattern that
\* matches text.lower(), or None
RECURSIVE first_match(_, _, _, _)
first_match(patterns, text_lower, owner, k) ==
    IF k > Len(patterns) THEN NoMatch
    ELSE LET m == IF patterns[k].ok THEN re_search(patterns[k], text_lower)
                  ELSE NoMatch
         IN  IF m.some THEN [m EXCEPT !.owner = owner, !.pat = k]
             ELSE first_match(patterns, text_lower, owner, k + 1)

\* classify_loop replacing the running best on score >= best_score
RECURSIVE classify_loop_ge(_, _, _, _, _, _)
classify_loop_ge(v, cat, text, ctx, i, best) ==
    IF i > Len(cat) THEN best
    ELSE LET sc == score_intent(v, cat[i], text, ctx)
             seen == Append(best.scores, sc.score)
         IN  IF sc.raised # None
             THEN [best EXCEPT !.raised = sc.raised]
             ELSE IF sc.score >= best.score /\ sc.score > 0
             THEN LET m == first_match(cat[i].patterns, lower_text(text), i, 1)
                  IN  classify_loop_ge(v, cat, text, ctx, i + 1,
                          [raised |-> None, score |-> sc.score, intent |-> i,
                           match |-> IF m.some THEN m ELSE best.match,
                           scores |-> seen])
             ELSE classify_loop_ge(v, cat, text, ctx, i + 1,
                                   [best EXCEPT !.scores = seen])

\* the loop of classify_intent from intent i on, best being the running
\* best_intent, best_score and best_match
RECURSIVE classify_loop(_, _, _, _, _, _)
classify_loop(v, cat, text, ctx, i, best) ==
    IF i > Len(cat) THEN best
    ELSE LET sc == score_intent(v, cat[i], text, ctx)
             seen == Append(best.scores, sc.score)
         IN  IF sc.raised # None
             THEN [best EXCEPT !.raised = sc.raised]
             ELSE IF sc.score > best.score
             THEN LET m == first_match(cat[i].patterns, lower_text(text), i, 1)
                  IN  classify_loop(v, cat, text, ctx, i + 1,
                          [raised |-> None, score |-> sc.score, intent |-> i,
                           match |-> IF m.some THEN m ELSE best.match,
                           scores |-> seen])
             ELSE classify_loop(v, cat, text, ctx, i + 1,
                                [best EXCEPT !.scores = seen])

\* classify_intent accepting a best score of exactly 0.5
classify_intent_at_threshold(v, cat, text, ctx) ==
    LET best == classify_loop(v, cat, text, ctx, 1,
                    [raised |-> None, score |-> 0, intent |-> 0,
                     match |-> NoMatch, scores |-> <<>>])
    IN  IF best.score >= THRESHOLD
        THEN [raised |-> None, intent |-> best.intent, match |-> best.match,
              scores |-> best.scores]
        ELSE [raised |-> None, intent |-> 0, match |-> NoMatch,
              scores |-> best.scores]

\* classify_intent(text): the returned intent (0: None) and match, the
\* scores computed on the way, and the exception raised if any
classify_intent(v, cat, text, ctx) ==
    LET best == classify_loop(v, cat, text, ctx, 1,
                    [raised |-> None, score |-> 0, intent |-> 0,
                     match |-> NoMatch, scores |-> <<>>])
    IN  IF best.raised # None
        THEN [raised |-> best.raised, intent |-> 0, match |-> NoMatch,
              scores |-> best.scores]
        ELSE IF best.score > THRESHOLD
        THEN [raised |-> None, intent |-> best.intent, match |-> best.match,
              scores |-> best.scores]
        ELSE [raised |-> None, intent |-> 0, match |-> NoMatch,
              scores |-> best.scores]

-----------------------------------------------------------------------------
(* _calculate. *)

\* what re.sub(r"[^\d\+\-\*\/\.\(\)\s]", "", word) leaves of a word: digits
\* and operators stay, letters and punctuation go
sanitize_word(w) ==
    CASE w \in DigitClass \cup OperatorClass -> w
      [] w = "3abc" -> "3"
      [] OTHER -> ""

\* the sanitized expression: the blanks between the words stay
sanitize(text) == [k \in 1..Len(text) |-> sanitize_word(text[k])]

\* the tokens of the sanitized expression: eval skips the blanks
tokens(expr) == SelectSeq(expr, LAMBDA w : w # "")

\* the value of a digit word
digit_value(w) == IF w = "5" THEN 5 ELSE IF w = "3" THEN 3 ELSE 0

\* eval's parser and evaluator on sums, products and quotients of signed
\* integers.  A result is [err, n, d, float, next]: the exception if any,
\* the value n/d, whether it is a float, and the next token to read.
ParseError(e, k) == [err |-> e, n |-> 0, d |-> 1, float |-> FALSE, next |-> k]

RECURSIVE parse_factor(_, _)
parse_factor(toks, k) ==
    IF k > Len(toks) THEN ParseError("SyntaxError", k)
    ELSE IF toks[k] \in {"+", "-"}
    THEN LET f == parse_factor(toks, k + 1)
         IN  IF toks[k] = "-" THEN [f EXCEPT !.n = 0 - @] ELSE f
    ELSE IF toks[k] \in DigitClass \cup {"3"}
    THEN [err |-> None, n |-> digit_value(toks[k]), d |-> 1,
          float |-> FALSE, next |-> k + 1]
    ELSE ParseError("SyntaxError", k)

\* the rest of a term after the factors that gave acc
RECURSIVE term_tail(_, _)
term_tail(toks, acc) ==
    IF acc.err = "SyntaxError" THEN acc
    ELSE IF acc.next <= Len(toks) /\ toks[acc.next] \in {"*", "/"}
    THEN LET f == parse_factor(toks, acc.next + 1)
             isDiv == toks[acc.next] = "/"
         IN  IF f.err = "SyntaxError" THEN f
             ELSE term_tail(toks,
                  [err |-> IF acc.err # None THEN acc.err
                           ELSE IF isDiv /\ f.n = 0 THEN "ZeroDivisionError"
                           ELSE None,
                   n |-> IF isDiv THEN acc.n * f.d ELSE acc.n * f.n,
                   d |-> IF isDiv THEN acc.d * f.n ELSE acc.d * f.d,
                   float |-> acc.float \/ f.float \/ isDiv,
                   next |-> f.next])
    ELSE acc

parse_term(toks, k) == term_tail(toks, parse_factor(toks, k))

\* the rest of a sum after the terms that gave acc
RECURSIVE sum_tail(_, _)
sum_tail(toks, acc) ==
    IF acc.err = "SyntaxError" THEN acc
    ELSE IF acc.next <= Len(toks) /\ toks[acc.next] \in {"+", "-"}
    THEN LET t == parse_term(toks, acc.next + 1)
             sign == IF toks[acc.next] = "-" THEN 0 - 1 ELSE 1
         IN  IF t.err = "SyntaxError" THEN t
             ELSE sum_tail(toks,
                  [err |-> IF acc.err # None THEN acc.err ELSE t.err,
                   n |-> acc.n * t.d + sign * t.n * acc.d,
                   d |-> acc.d * t.d,
                   float |-> acc.float \/ t.float,
                   next |-> t.next])
    ELSE acc

\* eval(expression): a syntax error is found before anything is evaluated
py_eval(expr) ==
    LET toks == tokens(expr)
        r == sum_tail(toks, parse_term(toks, 1))
    IN  IF r.err = "SyntaxError" THEN r
        ELSE IF r.next <= Len(toks) THEN ParseError("SyntaxError", r.next)
        ELSE r

\* the text of an evaluated number: an int in decimal, a float as the
\* quotient it was computed from
number_text(r) ==
    IF r.float THEN "float(" \o ToString(r.n) \o "/" \o ToString(r.d) \o ")"
    ELSE ToString(r.n)

\* the except clause of _calculate
APOLOGY == <<"I couldn't calculate that. Please use a format like '5 + 3' or '10 * 2'.">>

\* the exceptions "except Exception" catches; KeyboardInterrupt is not one
IsException(e) ==
    e \in {"AttributeError", "TypeError", "IndexError", "SyntaxError",
           "ZeroDivisionError", "re.error"}

\* the try block of _calculate: the raised exception, else the result text
calculate_try(match) ==
    IF ~match.some THEN [raised |-> "AttributeError", ret |-> <<>>]
    ELSE LET expression == IF lastindex(match) # 0 THEN match.groups[1]
                           ELSE match.g0
             clean == sanitize(expression)
             r == py_eval(clean)
         IN  IF r.err # None THEN [raised |-> r.err, ret |-> <<>>]
             ELSE [raised |-> None,
                   ret |-> <<"The result of">> \o clean
                           \o <<"is", "**" \o number_text(r) \o "**">>]

\* _calculate catching ZeroDivisionError only
calculate_catch_zero_division(match) ==
    LET t == calculate_try(match)
    IN  IF t.raised = "ZeroDivisionError"
        THEN [raised |-> None, ret |-> APOLOGY]
        ELSE t

\* _calculate(match)
calculate(match) ==
    LET t == calculate_try(match)
    IN  IF t.raised # None /\ IsException(t.raised)
        THEN [raised |-> None, ret |-> APOLOGY]
        ELSE t

-----------------------------------------------------------------------------
(* The actions bound to intents.  An action result is [raised, ret, ud]:   *)
(* the exception it raised, the value it returned (the empty text for      *)
(* None) and user_data as it left it.                                      *)

\* a title() that leaves the text as it is
untitled_text(text) == text

\* str.title() of a text
title_text(text) == [k \in 1..Len(text) |-> title(text[k])]

\* the words of a text as one string, blanks between them
RECURSIVE join(_)
join(text) ==
    IF Len(text) = 0 THEN ""
    ELSE IF Len(text) = 1 THEN text[1]
    ELSE text[1] \o " " \o join(Tail(text))

Returned(ret, ud) == [raised |-> None, ret |-> ret, ud |-> ud]
Raised(e, ud) == [raised |-> e, ret |-> <<>>, ud |-> ud]

\* Demo1, the user_name intent's lambda:
\* self.context.set_user_data('name', match.group(1).title())
store_name_lambda(ud, match) ==
    IF ~match.some THEN Raised("AttributeError", ud)
    ELSE IF Len(match.groups) < 1 THEN Raised("IndexError", ud)
    ELSE Returned(<<>>, DictSet(ud, "name", title_text(match.groups[1])))

\* Demo2, store_name_action
store_name_action(ud, match) ==
    IF match.some /\ lastindex(match) # 0 /\ lastindex(match) >= 1
    THEN Returned(<<>>, DictSet(ud, "name", title_text(match.groups[1])))
    ELSE Returned(<<>>, ud)

\* Demo2, store_birthday_action: match.lastindex >= 1 compares None with 1
\* when the match has no groups
store_birthday_action(ud, match) ==
    IF ~match.some THEN Returned(<<>>, ud)
    ELSE IF lastindex(match) = 0 THEN Raised("TypeError", ud)
    ELSE IF lastindex(match) >= 1
    THEN Returned(<<>>, DictSet(ud, "birthday", match.groups[1]))
    ELSE Returned(<<>>, ud)

\* save_note_action that puts the note first
save_note_first(ud, match) ==
    IF ~match.some THEN Returned(<<>>, ud)
    ELSE IF lastindex(match) = 0 THEN Raised("TypeError", ud)
    ELSE IF lastindex(match) >= 1
    THEN LET notes == DictGet(ud, "notes", <<>>)
         IN  Returned(<<>>, DictSet(ud, "notes", <<match.groups[1]>> \o notes))
    ELSE Returned(<<>>, ud)

\* Demo2, save_note_action
save_note_action(ud, match) ==
    IF ~match.some THEN Returned(<<>>, ud)
    ELSE IF lastindex(match) = 0 THEN Raised("TypeError", ud)
    ELSE IF lastindex(match) >= 1
    THEN LET notes == DictGet(ud, "notes", <<>>)
         IN  Returned(<<>>, DictSet(ud, "notes", Append(notes, match.groups[1])))
    ELSE Returned(<<>>, ud)

\* the lines "1. note", "2. note", ... of show_notes_action
RECURSIVE numbered(_, _)
numbered(notes, i) ==
    IF i > Len(notes) THEN <<>>
    ELSE <<ToString(i) \o "." >> \o notes[i] \o numbered(notes, i + 1)

\* Demo2, show_notes_action
show_notes_action(ud, match) ==
    LET notes == DictGet(ud, "notes", <<>>)
    IN  IF Len(notes) = 0
        THEN Returned(<<"You don't have any saved notes yet.">>, ud)
        ELSE Returned(<<"Here are your saved notes:">> \o numbered(notes, 1), ud)

\* store_favorites that keeps the category band as its key
store_favorites_unfolded(ud, favorite_type, favorite_value) ==
    LET favorites == DictGet(ud, "favorites", EmptyDict)
    IN  DictSet(DictSet(ud, "favorites",
                        DictSet(favorites, favorite_type, favorite_value)),
                "favorite_" \o favorite_type, favorite_value)

\* Demo2, AdvancedChatbot.store_favorites
store_favorites(ud, favorite_type, favorite_value) ==
    LET key == IF favorite_type = "band" THEN "music" ELSE favorite_type
        favorites == DictGet(ud, "favorites", EmptyDict)
    IN  DictSet(DictSet(ud, "favorites", DictSet(favorites, key, favorite_value)),
                "favorite_" \o key, favorite_value)

\* Demo2, store_favorites_action
store_favorites_action(ud, match) ==
    IF ~match.some THEN Returned(<<>>, ud)
    ELSE IF lastindex(match) = 0 THEN Raised("TypeError", ud)
    ELSE IF lastindex(match) >= 2
    THEN LET favorite_type == join(lower_text(match.groups[1]))
         IN  Returned(<<>>,
                 DictSet(store_favorites(ud, favorite_type, match.groups[2]),
                         "favorite_type", <<favorite_type>>))
    ELSE Returned(<<>>, ud)

\* intent.action(self, match)
run_action(action, ud, match) ==
    CASE action = "store_name_lambda" -> store_name_lambda(ud, match)
      [] action = "store_user_name" -> store_name_action(ud, match)
      [] action = "store_user_birthday" -> store_birthday_action(ud, match)
      [] action = "store_user_note" -> save_note_action(ud, match)
      [] action = "show_user_notes" -> show_notes_action(ud, match)
      [] action = "add_favorites" -> store_favorites_action(ud, match)
      [] action = "calculate" ->
            LET c == calculate(match) IN [raised |-> c.raised, ret |-> c.ret, ud |-> ud]

-----------------------------------------------------------------------------
(* SentimentAnalyzer. *)

\* Demo1: the class constants; Demo2: the sets load_from_config reads from
\* the "sentiment_words" section
POSITIVE_WORDS(v) ==
    IF v = 1
    THEN {"good", "great", "awesome", "excellent", "happy", "love",
          "wonderful", "fantastic", "amazing", "best", "nice", "thank",
          "thanks", "perfect", "beautiful", "brilliant", "exciting", "fun",
          "glad", "pleased"}
    ELSE {"good", "great", "love"}
NEGATIVE_WORDS(v) ==
    IF v = 1
    THEN {"bad", "terrible", "awful", "horrible", "sad", "hate", "worst",
          "angry", "upset", "annoyed", "frustrated", "disappointed",
          "boring", "stupid", "dumb", "useless", "wrong", "fail", "failed",
          "problem"}
    ELSE {"bad", "sad"}

\* analyze with the denominator positive_count + negative_count, without
\* the added 1
analyze_undamped(v, text) ==
    LET words == split_set(lower_text(text))
        positive_count == Cardinality(words \cap POSITIVE_WORDS(v))
        negative_count == Cardinality(words \cap NEGATIVE_WORDS(v))
    IN  IF positive_count > negative_count
        THEN [sentiment |-> "positive", num |-> positive_count,
              den |-> positive_count + negative_count]
        ELSE IF negative_count > positive_count
        THEN [sentiment |-> "negative", num |-> 0 - negative_count,
              den |-> positive_count + negative_count]
        ELSE [sentiment |-> "neutral", num |-> 0, den |-> 1]

\* SentimentAnalyzer.analyze(text): the label and the score num/den
analyze(v, text) ==
    LET words == split_set(lower_text(text))
        positive_count == Cardinality(words \cap POSITIVE_WORDS(v))
        negative_count == Cardinality(words \cap NEGATIVE_WORDS(v))
    IN  IF positive_count > negative_count
        THEN [sentiment |-> "positive", num |-> positive_count,
              den |-> positive_count + negative_count + 1]
        ELSE IF negative_count > positive_count
        THEN [sentiment |-> "negative", num |-> 0 - negative_count,
              den |-> positive_count + negative_count + 1]
        ELSE [sentiment |-> "neutral", num |-> 0, den |-> 1]

\* analyze has not been called
NotAnalyzed == [sentiment |-> None, num |-> 0, den |-> 1]

\* the default responses of the no-match path: Demo1's literal lists,
\* Demo2's unknown_responses with the defaults of __init__
unknown_responses(v, sentiment) ==
    IF v = 1
    THEN CASE sentiment = "positive" ->
                <<<<"I love your positive energy! What else is on your mind?">>,
                  <<"That sounds great! Tell me more.">>,
                  <<"Wonderful! What else would you like to chat about?">>>>
           [] sentiment = "negative" ->
                <<<<"I'm sorry to hear that. Is there anything I can help with?">>,
                  <<"That sounds challenging. Want to talk about it?">>,
                  <<"I understand. I'm here if you need to chat.">>>>
           [] OTHER ->
                <<<<"Interesting! Could you tell me more about that?">>,
                  <<"I see. What else is on your mind?">>,
                  <<"That's intriguing! Type 'help' to see what I can do.">>,
                  <<"Hmm, I'm not quite sure what you mean. Try asking differently?">>>>
    ELSE CASE sentiment = "positive" -> <<<<"That's great!">>>>
           [] sentiment = "negative" -> <<<<"I'm sorry to hear that.">>>>
           [] OTHER -> <<<<"Interesting!">>>>

-----------------------------------------------------------------------------
(* _fill_template. *)

\* self.name
BotName(v) == <<"BERGEN TECH AI">>

\* datetime.now().strftime(...) at the time of the call
CurrentTime == <<"%I:%M %p">>
CurrentDate == <<"%A, %B %d, %Y">>

\* str.replace(key, value, 1): only the first occurrence is replaced
RECURSIVE replace_first(_, _, _)
replace_first(text, key, value) ==
    IF Len(text) = 0 THEN <<>>
    ELSE IF Head(text) = key THEN value \o Tail(text)
    ELSE <<Head(text)>> \o replace_first(Tail(text), key, value)

\* str.replace(key, value) on a text whose placeholders are whole words
RECURSIVE replace(_, _, _)
replace(text, key, value) ==
    IF Len(text) = 0 THEN <<>>
    ELSE (IF Head(text) = key THEN value ELSE <<Head(text)>>)
         \o replace(Tail(text), key, value)

\* _fill_template(response): the replacements in the order of the dict
fill_template(v, ud, template) ==
    LET r1 == replace(template, "{bot_name}", BotName(v))
        r2 == replace(r1, "{user_name}", DictGet(ud, "name", <<"friend">>))
        r3 == replace(r2, "{current_time}", CurrentTime)
        r4 == replace(r3, "{current_date}", CurrentDate)
    IN  IF v = 1 THEN r4
        ELSE replace(r4, "{user_birthday}", DictGet(ud, "birthday", <<"unknown">>))

-----------------------------------------------------------------------------
(* get_response. *)

\* update_context that always clears
update_context_clears(intent) == None

\* the context update that ends the matched path: set_context or
\* clear_context, one call
update_context(intent) ==
    IF intent.context_set # None /\ intent.context_set # ""
    THEN intent.context_set
    ELSE None

\* the state a call of get_response begins with: nothing returned, nothing
\* written
Begun(c, ctx, ud, pick) ==
    [raised |-> None, response |-> <<>>, ctx |-> ctx, ud |-> ud,
     ctx_writes |-> 0, intent |-> c.intent, match |-> c.match,
     scores |-> c.scores, action |-> Returned(<<>>, ud), acted |-> FALSE,
     picked |-> pick = 1]

\* action_reply that updates the context before it returns
action_reply_updates(v, ran, a) ==
    [ran EXCEPT !.response = fill_template(v, a.ud, a.ret),
                !.ctx = None, !.ctx_writes = @ + 1]

\* if action_result: return self._fill_template(action_result)
action_reply(v, ran, a) ==
    [ran EXCEPT !.response = fill_template(v, a.ud, a.ret)]

\* random.choice(intent.responses), _fill_template, the context update and
\* the return; random.choice raises IndexError on an empty list
template_reply(v, ran, intent, a, pick) ==
    IF Len(intent.responses) = 0
    THEN [ran EXCEPT !.raised = "IndexError"]
    ELSE [ran EXCEPT
            !.response = fill_template(v, a.ud,
                intent.responses[IF pick <= Len(intent.responses)
                                 THEN pick ELSE 1]),
            !.ctx = update_context(intent),
            !.ctx_writes = @ + 1,
            !.picked = pick <= Len(intent.responses)]

\* unmatched_reply that clears the context
unmatched_reply_clears(v, base, sentiment, pick) ==
    LET defaults == unknown_responses(v, sentiment.sentiment)
    IN  [base EXCEPT
           !.response = defaults[IF pick <= Len(defaults) THEN pick ELSE 1],
           !.ctx = None,
           !.picked = pick <= Len(defaults)]

\* unmatched_reply that writes the context once
unmatched_reply_writes(v, base, sentiment, pick) ==
    LET defaults == unknown_responses(v, sentiment.sentiment)
    IN  [base EXCEPT
           !.response = defaults[IF pick <= Len(defaults) THEN pick ELSE 1],
           !.ctx_writes = @ + 1,
           !.picked = pick <= Len(defaults)]

\* the path of get_response when no intent matched: random.choice of the
\* defaults of the sentiment
unmatched_reply(v, base, sentiment, pick) ==
    LET defaults == unknown_responses(v, sentiment.sentiment)
    IN  [base EXCEPT
           !.response = defaults[IF pick <= Len(defaults) THEN pick ELSE 1],
           !.picked = pick <= Len(defaults)]

\* the matched path after the action returned a: the action's response if
\* it gave one, a response of the intent otherwise
after_action(v, ran, intent, a, pick) ==
    IF a.raised # None THEN [ran EXCEPT !.raised = a.raised]
    ELSE IF intent.action # None /\ Len(a.ret) > 0
    THEN action_reply(v, ran, a)
    ELSE template_reply(v, ran, intent, a, pick)

\* the path of get_response when an intent matched: the action is called
\* once, and its result a decides the rest
matched_reply(v, base, intent, pick) ==
    CHOOSE r \in
        {after_action(v, [base EXCEPT !.action = a, !.ud = a.ud,
                                      !.acted = intent.action # None],
                      intent, a, pick) :
            a \in {IF intent.action # None
                   THEN run_action(intent.action, base.ud, base.match)
                   ELSE Returned(<<>>, base.ud)}} : TRUE

\* get_response after classify_intent returned c and the analyzer sentiment
reply_to(v, cat, c, sentiment, ctx, ud, pick) ==
    IF c.raised # None
    THEN [Begun(c, ctx, ud, pick) EXCEPT !.raised = c.raised]
    ELSE IF c.intent # 0
    THEN matched_reply(v, Begun(c, ctx, ud, pick), cat[c.intent], pick)
    ELSE unmatched_reply(v, Begun(c, ctx, ud, pick), sentiment, pick)

\* get_response(user_input) from current_context = ctx and user_data = ud,
\* random.choice drawing its pick-th option.  classify_intent and the
\* analyzer are called once each.  The result holds what was returned or
\* raised and the state the call left; picked says that pick is an option
\* of the draw the call made (1 when it made none).
get_response(v, cat, text, ctx, ud, pick) ==
    CHOOSE r \in
        {reply_to(v, cat, c, sentiment, ctx, ud, pick) :
            c \in {classify_intent(v, cat, text, ctx)},
            sentiment \in {analyze(v, text)}} : TRUE

-----------------------------------------------------------------------------
(* Inputs. *)

\* every text of 1..n words over the word set W
RECURSIVE TextsOfLen(_, _)
TextsOfLen(W, n) ==
    IF n = 0 THEN {<<>>}
    ELSE {Append(t, w) : t \in TextsOfLen(W, n - 1), w \in W}
Texts(W, n) == UNION {TextsOfLen(W, k) : k \in 1..n}

\* the words of the utterances handed to classify_intent on its own
Vocabulary(v) ==
    IF v = 1
    THEN {"i", "am", "great", "okay", "how", "doing", "who", "call", "name",
          "calculate", "+", "5"}
    ELSE {"i", "am", "Alex", "great", "born", "note", "like", "band", "math",
          "+"}

\* the words of the captures handed to _calculate on its own
CalcWords == {"5", "0", "+", "/", "3abc", "rm"}

\* what the user types in a chat session
SessionUtterances(v) ==
    IF v = 1
    THEN {<<"great">>, <<"how", "doing">>, <<"i", "am", "great">>,
          <<"i", "am", "Alex">>, <<"call", "name">>, <<"name", "who", "call">>,
          <<"who">>, <<"who", "call">>, <<"math", "+">>,
          <<"calculate", "5", "+", "5">>, <<"5", "/", "0">>,
          <<"math", "+", "-", "great">>, <<"quit">>}
    ELSE {<<"great">>, <<"how", "doing">>, <<"i", "am", "Alex">>,
          <<"born", "May", "5">>, <<"born">>, <<"note", "call", "Alex">>,
          <<"notes">>, <<"like", "band", "jazz">>, <<"math", "+">>,
          <<"calculate", "5", "/", "0">>, <<"who">>, <<"quit">>}

\* the context tags the catalog can install, and none
Contexts(cat) ==
    {None} \cup {update_context(cat[i]) : i \in 1..Len(cat)}

\* the matches handed to _calculate on its own: None, a match without
\* groups, a match with one group, a match with two groups
CalcMatches ==
    {NoMatch}
    \cup {[some |-> TRUE, owner |-> 0, pat |-> 0, g0 |-> e, groups |-> <<>>] :
            e \in Texts(CalcWords, MaxExprLen)}
    \cup {[some |-> TRUE, owner |-> 0, pat |-> 0,
           g0 |-> <<"calculate">> \o e, groups |-> <<e>>] :
            e \in Texts(CalcWords, MaxExprLen)}
    \cup {[some |-> TRUE, owner |-> 0, pat |-> 0,
           g0 |-> <<"what", "is">> \o e, groups |-> <<<<"is">>, e>>] :
            e \in Texts(CalcWords, 1)}

-----------------------------------------------------------------------------
(* Demo2: ConfigLoader.validate_config and AdvancedChatbot.__init__.  A    *)
(* configuration is [sections, intents]: the names of its top-level        *)
(* sections, and its intent entries, each a function from the fields it    *)
(* has to their values.                                                    *)

\* required_sections and required_intent_fields of validate_config
RequiredSections == {"bot_settings", "intents"}
RequiredFields == {"name", "patterns", "responses"}
\* the fields _build_intents reads with intent_data.get
OptionalFields == {"keywords", "context_set", "context_required", "action_type"}

\* no configuration: the state holds none outside the constructor's runs
NoConfig == [sections |-> {}, intents |-> <<>>]
\* the constructor has not run
NotConstructed == [raised |-> None, built |-> <<>>, instance |-> FALSE]

\* validate_config that checks the sections only
validate_sections_only(cfg) ==
    IF RequiredSections \subseteq cfg.sections THEN None ELSE "ValueError"

\* validate_config(config): ValueError on a missing section, then on an
\* intent entry without one of the required fields
validate_config(cfg) ==
    IF ~(RequiredSections \subseteq cfg.sections) THEN "ValueError"
    ELSE IF \E i \in 1..Len(cfg.intents) :
                ~(RequiredFields \subseteq DOMAIN cfg.intents[i])
    THEN "ValueError"
    ELSE None

\* intent_data.get(field), None when the entry has no such field
EntryGet(entry, field, default) ==
    IF field \in DOMAIN entry THEN entry[field] ELSE default

\* _build_intents from entry k on, built being self.intents so far:
\* intent_data["name"] raises KeyError on an entry without the field
RECURSIVE build_intents(_, _, _)
build_intents(cfg, k, built) ==
    IF "intents" \notin cfg.sections
    THEN [raised |-> "KeyError", built |-> built]
    ELSE IF k > Len(cfg.intents) THEN [raised |-> None, built |-> built]
    ELSE IF ~(RequiredFields \subseteq DOMAIN cfg.intents[k])
    THEN [raised |-> "KeyError", built |-> built]
    ELSE build_intents(cfg, k + 1,
            Append(built,
                Intent(cfg.intents[k]["name"], cfg.intents[k]["patterns"],
                       EntryGet(cfg.intents[k], "keywords", <<>>),
                       cfg.intents[k]["responses"],
                       EntryGet(cfg.intents[k], "context_set", None),
                       EntryGet(cfg.intents[k], "context_required", None),
                       EntryGet(cfg.intents[k], "action_type", None))))

\* AdvancedChatbot.__init__ after load_config: validate_config, then
\* _build_intents; instance says that the constructor returned a chatbot
construct(cfg) ==
    IF validate_config(cfg) # None
    THEN [raised |-> validate_config(cfg), built |-> <<>>, instance |-> FALSE]
    ELSE CHOOSE r \in {[raised |-> b.raised, built |-> b.built,
                        instance |-> b.raised = None] :
                            b \in {build_intents(cfg, 1, <<>>)}} : TRUE

-----------------------------------------------------------------------------
(* game.py: tic-tac-toe. *)

Cells == 0..8

\* WIN_LINES: rows, columns, diagonals
WIN_LINES ==
    <<<<0, 1, 2>>, <<3, 4, 5>>, <<6, 7, 8>>,
      <<0, 3, 6>>, <<1, 4, 7>>, <<2, 5, 8>>,
      <<0, 4, 8>>, <<2, 4, 6>>>>

\* "return None" of winning_move and ai_move: no cell
NoCell == 0 - 1

\* [' '] * 9
EmptyBoard == [i \in Cells |-> " "]

\* winner(b) from line k on: the mark of the first line held by one mark,
\* 'Draw' when no line is and the board is full, else None
RECURSIVE winner_from(_, _)
winner_from(b, k) ==
    IF k > Len(WIN_LINES)
    THEN (IF \E i \in Cells : b[i] = " " THEN None ELSE "Draw")
    ELSE IF /\ b[WIN_LINES[k][1]] # " "
            /\ b[WIN_LINES[k][1]] = b[WIN_LINES[k][2]]
            /\ b[WIN_LINES[k][2]] = b[WIN_LINES[k][3]]
    THEN b[WIN_LINES[k][1]]
    ELSE winner_from(b, k + 1)

winner(b) == winner_from(b, 1)

\* winning_move(b, mark) from cell i on: the first empty cell that wins
RECURSIVE winning_move_from(_, _, _)
winning_move_from(b, mark, i) ==
    IF i > 8 THEN NoCell
    ELSE IF b[i] = " " /\ winner([b EXCEPT ![i] = mark]) = mark THEN i
    ELSE winning_move_from(b, mark, i + 1)

winning_move(b, mark) == winning_move_from(b, mark, 0)

\* the first loop of ai_move, from index i on: board_state_mini is the empty
\* list, an assignment board_state_mini[i] = ... raises IndexError, and so
\* does b[9]
RECURSIVE search_moves(_, _)
search_moves(b, i) ==
    IF i > 9 THEN None
    ELSE IF i \notin DOMAIN b THEN "IndexError"
    ELSE IF b[i] \in {" ", "X", "O"} THEN "IndexError"
    ELSE search_moves(b, i + 1)

\* minimax(board, turn) inside ai_move, to_move being turn: +1 for a win of ai, -1 for a win of
\* human, 0 for a draw
RECURSIVE minimax(_, _, _, _)
minimax(b, to_move, ai, human) ==
    LET w == winner(b)
        free == {i \in Cells : b[i] = " "}
    IN  IF w # None
        THEN (IF w = ai THEN 1 ELSE IF w = human THEN 0 - 1 ELSE 0)
        ELSE IF to_move = ai
        THEN LET vals == {minimax([b EXCEPT ![i] = ai], human, ai, human) :
                            i \in free}
             IN  CHOOSE v \in vals : \A x \in vals : x <= v
        ELSE LET vals == {minimax([b EXCEPT ![i] = human], ai, ai, human) :
                            i \in free}
             IN  CHOOSE v \in vals : \A x \in vals : v <= x

\* the tie-breaker of ai_move: center, corners, then sides
Preference == <<4, 0, 2, 6, 8, 1, 3, 5, 7>>

\* the first cell of Preference from position k on that is in best_moves
RECURSIVE preferred(_, _)
preferred(best_moves, k) ==
    IF k > Len(Preference) THEN NoCell
    ELSE IF Preference[k] \in best_moves THEN Preference[k]
    ELSE preferred(best_moves, k + 1)

\* ai_move after its first loop: win, block, else a move of the best
\* minimax score, by Preference
choose_move(b, ai, human) ==
    IF winning_move(b, ai) # NoCell THEN winning_move(b, ai)
    ELSE IF winning_move(b, human) # NoCell THEN winning_move(b, human)
    ELSE LET moves == {i \in Cells : b[i] = " "}
             score == [m \in moves |->
                          minimax([b EXCEPT ![m] = ai], human, ai, human)]
             best_moves == {m \in moves : \A x \in moves : score[x] <= score[m]}
         IN  preferred(best_moves, 1)

\* ai_move(b, ai, human): the exception raised, if any, and the cell
\* returned
ai_move(b, ai, human) ==
    IF search_moves(b, 0) # None
    THEN [raised |-> search_moves(b, 0), ret |-> NoCell]
    ELSE [raised |-> None, ret |-> choose_move(b, ai, human)]

\* input(...).strip().lower() of the answers typed at "Play again? (y/n)"
strip_lower(line) ==
    CASE line \in {"y", "Y", " y "} -> "y"
      [] line \in {"yes", "YES"} -> "yes"
      [] line \in {"n", "N"} -> "n"
      [] OTHER -> line

\* the test of main that ends the program: again != 'y' or again != "yes"
stops(answer) == answer # "y" \/ answer # "yes"

-----------------------------------------------------------------------------
(* The state machine. *)

\* game.py is not running
NoGame ==
    /\ board = <<>>
    /\ turn = None
    /\ idx = NoCell
    /\ result = None
    /\ again = None
    /\ game_pc = "idle"

\* AdvancedChatbot.__init__ and ConversationContext.__init__, the intents
\* being cat
FreshChatbot(v, cat) ==
    /\ variant = v
    /\ intents = cat
    /\ user_data = EmptyDict
    /\ history = <<>>
    /\ running = TRUE
    /\ op = "init"
    /\ utterance = <<>>
    /\ ctx_before = None
    /\ ud_before = EmptyDict
    /\ scores = <<>>
    /\ ret_intent = 0
    /\ ret_match = NoMatch
    /\ action_result = [raised |-> None, ret |-> <<>>, acted |-> FALSE]
    /\ response = <<>>
    /\ raised = None
    /\ ctx_writes = 0
    /\ calc_match = NoMatch
    /\ calc_out = [raised |-> None, ret |-> <<>>]
    /\ exported = None
    /\ analysis = NotAnalyzed
    /\ fill_arg = <<>>

\* a chatbot session: game.py is another program
FreshWith(v, cat) == FreshChatbot(v, cat) /\ NoGame

\* a new chatbot with the catalog of its variant
Fresh(v) == FreshWith(v, Catalog(v)) /\ config = NoConfig /\ ctor = NotConstructed

\* a chat session starts from a new chatbot
Init == \E v \in {1, 2} : Fresh(v) /\ current_context = None

\* add_exchange that puts the exchange first
add_exchange_first(h, user_input, bot_response) ==
    <<[timestamp |-> Len(h) + 1, user |-> user_input,
       bot |-> bot_response]>> \o h

\* ConversationContext.add_exchange; the timestamp is the logical time of
\* the append
add_exchange(h, user_input, bot_response) ==
    Append(h, [timestamp |-> Len(h) + 1, user |-> user_input,
               bot |-> bot_response])

\* the exit commands of the chat loop, as lower-case texts
exit_commands(v) ==
    IF v = 1 THEN {<<"quit">>, <<"exit">>, <<"bye">>, <<"goodbye">>}
    ELSE {<<"quit">>, <<"exit">>}

\* keeps_running that leaves the loop when the turn raised
keeps_running_unless_raised(v, u, e) ==
    e = None /\ lower_text(u) \notin exit_commands(v)

\* whether the loop goes on after a turn on the line u that raised e (None:
\* it completed): except Exception prints and the loop continues; a
\* completed turn on an exit command breaks
keeps_running(v, u, e) ==
    e # None \/ lower_text(u) \notin exit_commands(v)

\* one iteration of the chat loop on a non-empty line that is not "stats":
\* get_response, then add_exchange unless get_response raised, in which case
\* "except Exception" resumes the loop
TurnWithin(u, limit) ==
    /\ running
    /\ Len(history) < limit
    /\ \E pick \in 1..4 :
         \E r \in {get_response(variant, intents, u, current_context,
                                user_data, pick)} :
             /\ r.picked
             /\ op' = "turn"
             /\ utterance' = u
             /\ ctx_before' = current_context
             /\ ud_before' = user_data
             /\ scores' = r.scores
             /\ ret_intent' = r.intent
             /\ ret_match' = r.match
             /\ action_result' = [raised |-> r.action.raised,
                                   ret |-> r.action.ret, acted |-> r.acted]
             /\ response' = r.response
             /\ raised' = r.raised
             /\ ctx_writes' = r.ctx_writes
             /\ current_context' = r.ctx
             /\ user_data' = r.ud
             /\ history' = IF r.raised = None
                           THEN add_exchange(history, u, r.response)
                           ELSE history
             /\ running' = keeps_running(variant, u, r.raised)
    /\ UNCHANGED <<config, ctor, exported, analysis, fill_arg, game_vars>>
    /\ UNCHANGED <<variant, intents, calc_match, calc_out>>

\* an iteration of a session the model stops after MaxTurns exchanges
ChatTurn(u) == TurnWithin(u, MaxTurns)

\* an iteration on an empty line: continue
EmptyInput ==
    /\ running
    /\ op' = "empty"
    /\ UNCHANGED <<config, ctor, exported, analysis, fill_arg, game_vars>>
    /\ UNCHANGED <<variant, intents, current_context, user_data, history,
                   running, utterance, ctx_before, ud_before, scores,
                   ret_intent, ret_match, action_result, response, raised,
                   ctx_writes, calc_match, calc_out>>

\* Ctrl+C at the prompt: the loop breaks
Interrupt ==
    /\ running
    /\ op' = "interrupt"
    /\ running' = FALSE
    /\ UNCHANGED <<config, ctor, exported, analysis, fill_arg, game_vars>>
    /\ UNCHANGED <<variant, intents, current_context, user_data, history,
                   utterance, ctx_before, ud_before, scores, ret_intent,
                   ret_match, action_result, response, raised, ctx_writes,
                   calc_match, calc_out>>

\* the "stats" command of Demo2: _show_stats prints and changes nothing; it
\* reads the analysis of the last exchange after its loop, so on an empty
\* history it raises, and the loop's handler catches that
show_stats(h) == IF Len(h) = 0 THEN "UnboundLocalError" ELSE None

ShowStats ==
    /\ running
    /\ variant = 2
    /\ op' = "stats"
    /\ raised' = show_stats(history)
    /\ UNCHANGED <<config, ctor, exported, analysis, fill_arg, game_vars>>
    /\ UNCHANGED <<variant, intents, current_context, user_data, history,
                   running, utterance, ctx_before, ud_before, scores,
                   ret_intent, ret_match, action_result, response,
                   ctx_writes, calc_match, calc_out>>

Next ==
    \/ \E u \in SessionUtterances(variant) : ChatTurn(u)
    \/ EmptyInput
    \/ ShowStats
    \/ Interrupt

Spec == Init /\ [][Next]_vars

\* classify_intent called once on a chatbot in one of its contexts
InitClassify ==
    \E v \in {1, 2} :
        /\ Fresh(v)
        /\ current_context \in Contexts(Catalog(v))

ClassifyCall(u) ==
    /\ \E c \in {classify_intent(variant, intents, u, current_context)} :
           /\ op' = "classify"
           /\ utterance' = u
           /\ ctx_before' = current_context
           /\ scores' = c.scores
           /\ ret_intent' = c.intent
           /\ ret_match' = c.match
           /\ raised' = c.raised
    /\ UNCHANGED <<config, ctor, exported, analysis, fill_arg, game_vars>>
    /\ UNCHANGED <<variant, intents, current_context, user_data, history,
                   running, ud_before, action_result, response, ctx_writes,
                   calc_match, calc_out>>

NextClassify ==
    /\ op = "init"
    /\ \E u \in Texts(Vocabulary(variant), MaxLen) : ClassifyCall(u)

SpecClassify == InitClassify /\ [][NextClassify]_vars

\* the catalog cat with a pattern that does not compile put first or last
\* in the pattern list of intent i
WithBadPattern(cat, i, front) ==
    [cat EXCEPT ![i].patterns = IF front THEN <<BadPattern>> \o @
                                ELSE Append(@, BadPattern)]

\* the intents handed to the scorer, one of them with a malformed pattern
BadCatalogs(v) ==
    {WithBadPattern(Catalog(v), i, front) :
        i \in 1..Len(Catalog(v)), front \in BOOLEAN}

\* classify_intent called once over intents one of which has a pattern
\* that does not compile
InitPatterns ==
    \E v \in {1, 2} :
        \E cat \in BadCatalogs(v) :
            /\ FreshWith(v, cat)
            /\ current_context \in Contexts(Catalog(v))
            /\ config = NoConfig
            /\ ctor = NotConstructed

NextPatterns ==
    /\ op = "init"
    /\ \E u \in SessionUtterances(variant) : ClassifyCall(u)

SpecPatterns == InitPatterns /\ [][NextPatterns]_vars

\* _calculate called once with a match
InitCalculate == \E v \in {1, 2} : Fresh(v) /\ current_context = None

CalculateCall(m) ==
    /\ op' = "calculate"
    /\ calc_match' = m
    /\ calc_out' = calculate(m)
    /\ UNCHANGED <<config, ctor, exported, analysis, fill_arg, game_vars>>
    /\ UNCHANGED <<variant, intents, current_context, user_data, history,
                   running, utterance, ctx_before, ud_before, scores,
                   ret_intent, ret_match, action_result, response, raised,
                   ctx_writes>>

NextCalculate ==
    /\ op = "init"
    /\ \E m \in CalcMatches : CalculateCall(m)

SpecCalculate == InitCalculate /\ [][NextCalculate]_vars

\* the lines of a Demo2 session about notes and favorites: two notes to
\* save, the request to list them, favorites of the category band and of
\* another category, and a line that is none of these
SaveUtterances ==
    {<<"note", "call", "Alex">>, <<"note", "jazz">>, <<"notes">>, <<"great">>,
     <<"like", "band", "jazz">>, <<"like", "Band", "Alex">>,
     <<"like", "math", "5">>}

\* a Demo2 session
InitDemo2 == Fresh(2) /\ current_context = None

NextSaves == \E u \in SaveUtterances : TurnWithin(u, MaxSaves)

SpecSaves == InitDemo2 /\ [][NextSaves]_vars

\* the pieces of the templates handed to _fill_template: a word, the five
\* placeholders and a placeholder it does not know
TemplateVocabulary ==
    {"hi", "{bot_name}", "{user_name}", "{current_time}", "{current_date}",
     "{user_birthday}", "{foo}"}

\* the facts stored before _fill_template is called: a name, title-cased by
\* the name action, and a birthday as the user typed it, which can be the
\* text of a placeholder
StoredFacts ==
    {<<"name", <<"Alex">>>>, <<"birthday", <<"may", "5">>>>,
     <<"birthday", <<"{bot_name}">>>>}

\* ConversationContext.set_user_data(key, value) called once
SetUserDataCall ==
    /\ op \in {"init", "set"}
    /\ \E f \in StoredFacts :
           /\ f[1] \notin DOMAIN user_data
           /\ user_data' = DictSet(user_data, f[1], f[2])
    /\ op' = "set"
    /\ UNCHANGED <<variant, intents, current_context, history, running,
                   utterance, ctx_before, ud_before, scores, ret_intent,
                   ret_match, action_result, response, raised, ctx_writes,
                   calc_match, calc_out, config, ctor, exported, analysis,
                   fill_arg, game_vars>>

\* _fill_template called once on a text
FillCall(t) ==
    /\ op \in {"init", "set"}
    /\ op' = "fill"
    /\ fill_arg' = t
    /\ response' = fill_template(variant, user_data, t)
    /\ UNCHANGED <<variant, intents, current_context, user_data, history,
                   running, utterance, ctx_before, ud_before, scores,
                   ret_intent, ret_match, action_result, raised, ctx_writes,
                   calc_match, calc_out, config, ctor, exported, analysis,
                   game_vars>>

NextFill ==
    \/ SetUserDataCall
    \/ \E t \in Texts(TemplateVocabulary, MaxLen) : FillCall(t)

SpecFill == Init /\ [][NextFill]_vars

\* the words analyze is called on: positive, negative and other words, one
\* of them in upper case
SentimentVocabulary == {"good", "great", "Great", "bad", "sad", "okay"}

\* SentimentAnalyzer.analyze called once on a text
AnalyzeCall(u) ==
    /\ op' = "analyze"
    /\ utterance' = u
    /\ analysis' = analyze(variant, u)
    /\ UNCHANGED <<variant, intents, current_context, user_data, history,
                   running, ctx_before, ud_before, scores, ret_intent,
                   ret_match, action_result, response, raised, ctx_writes,
                   calc_match, calc_out, config, ctor, exported, fill_arg,
                   game_vars>>

NextAnalyze ==
    /\ op = "init"
    /\ \E u \in Texts(SentimentVocabulary, MaxLen) : AnalyzeCall(u)

SpecAnalyze == Init /\ [][NextAnalyze]_vars

\* the catalog cat with the first keyword of intent i listed twice, as a
\* configuration can list it
WithRepeatedKeyword(cat, i) ==
    [cat EXCEPT ![i].keywords = IF Len(@) = 0 THEN @ ELSE Append(@, @[1])]

\* the catalogs handed to the scorer: Demo1's own, and for Demo2 the
\* configured one and those with a keyword listed twice
KeywordCatalogs(v) ==
    IF v = 1 THEN {Catalog(1)}
    ELSE {Catalog(2)}
         \cup {WithRepeatedKeyword(Catalog(2), i) : i \in 1..Len(Catalog(2))}

\* the catalog cat with the first keyword of intent i written with a
\* capital
WithUpperKeyword(cat, i) ==
    [cat EXCEPT ![i].keywords = IF Len(@) = 0 THEN @
                                ELSE <<title(@[1])>> \o Tail(@)]

\* the intents handed to _score_intent of either variant: those of the two
\* catalogs, as they are, with a keyword listed twice and with a keyword
\* written with a capital
ScorerCatalogs ==
    UNION {{cat} \cup {WithRepeatedKeyword(cat, i) : i \in 1..Len(cat)}
                 \cup {WithUpperKeyword(cat, i) : i \in 1..Len(cat)} :
            cat \in {Catalog(1), Catalog(2)}}

\* _score_intent of one variant called on every intent of such a catalog
InitScorers ==
    \E v \in {1, 2} :
        \E cat \in ScorerCatalogs :
            /\ FreshWith(v, cat)
            /\ current_context \in Contexts(cat)
            /\ config = NoConfig
            /\ ctor = NotConstructed

NextScorers ==
    /\ op = "init"
    /\ \E u \in SessionUtterances(1) \cup SessionUtterances(2) : ClassifyCall(u)

SpecScorers == InitScorers /\ [][NextScorers]_vars

\* classify_intent called once over one of these catalogs
InitKeywords ==
    \E v \in {1, 2} :
        \E cat \in KeywordCatalogs(v) :
            /\ FreshWith(v, cat)
            /\ current_context \in Contexts(Catalog(v))
            /\ config = NoConfig
            /\ ctor = NotConstructed

NextKeywords ==
    /\ op = "init"
    /\ \E u \in SessionUtterances(variant) : ClassifyCall(u)

SpecKeywords == InitKeywords /\ [][NextKeywords]_vars

\* get_conversation_history(): return self.context.history, the list
\* object itself; the caller's list is named by the object it is
GetHistory == "history"

\* the contents of the list the caller of get_conversation_history holds
ExportedList == IF exported = "history" THEN history ELSE <<>>

\* the lines of the sessions in which the history is exported
ExportUtterances(v) ==
    IF v = 1 THEN {<<"great">>, <<"who">>, <<"call", "name">>}
    ELSE {<<"great">>, <<"who">>, <<"born">>}

\* a collaborator calls get_conversation_history
Export ==
    /\ op' = "export"
    /\ exported' = GetHistory
    /\ UNCHANGED <<variant, intents, current_context, user_data, history,
                   running, utterance, ctx_before, ud_before, scores,
                   ret_intent, ret_match, action_result, response, raised,
                   ctx_writes, calc_match, calc_out, config, ctor, analysis,
                   fill_arg, game_vars>>

\* the collaborator removes the last entry of the list it was given
\* (list.pop()); the list is the conversation's own
CollaboratorPop ==
    /\ exported = "history"
    /\ Len(ExportedList) > 0
    /\ op' = "pop"
    /\ history' = SubSeq(history, 1, Len(history) - 1)
    /\ UNCHANGED <<variant, intents, current_context, user_data, running,
                   utterance, ctx_before, ud_before, scores, ret_intent,
                   ret_match, action_result, response, raised, ctx_writes,
                   calc_match, calc_out, config, ctor, exported, analysis,
                   fill_arg, game_vars>>

NextExport ==
    \/ \E u \in ExportUtterances(variant) : ChatTurn(u)
    \/ Export
    \/ CollaboratorPop

SpecExport == Init /\ [][NextExport]_vars

\* the configuration entry of an intent, with every field
FullEntry(intent) ==
    [f \in RequiredFields \cup OptionalFields |->
        IF f = "action_type" THEN intent.action ELSE intent[f]]

\* the entries a configuration can hold at position k: the entry of the
\* k-th intent with any of its required fields missing, with or without
\* the optional fields
EntriesAt(k) ==
    {[f \in F \cup O |-> FullEntry(Demo2Intents[k])[f]] :
        F \in SUBSET RequiredFields, O \in {{}, OptionalFields}}

\* the lists of n entries
RECURSIVE EntryLists(_)
EntryLists(n) ==
    IF n = 0 THEN {<<>>}
    ELSE {Append(es, e) : es \in EntryLists(n - 1), e \in EntriesAt(n)}

\* the configurations handed to the constructor
Configs ==
    {[sections |-> S, intents |-> <<>>] : S \in SUBSET {"bot_settings"}}
    \cup {[sections |-> S \cup {"intents"}, intents |-> es] :
            S \in SUBSET {"bot_settings"},
            es \in UNION {EntryLists(n) : n \in 0..MaxEntries}}

\* AdvancedChatbot(config_path) called once on a configuration
InitConfig ==
    /\ FreshWith(2, <<>>)
    /\ current_context = None
    /\ config \in Configs
    /\ ctor = NotConstructed

Construct ==
    /\ op = "init"
    /\ op' = "construct"
    /\ \E r \in {construct(config)} :
        /\ ctor' = r
        /\ intents' = r.built
        /\ raised' = r.raised
    /\ UNCHANGED <<variant, current_context, user_data, history, running,
                   utterance, ctx_before, ud_before, scores, ret_intent,
                   ret_match, action_result, response, ctx_writes,
                   calc_match, calc_out, config, exported, analysis, fill_arg,
                   game_vars>>

NextConfig == Construct

SpecConfig == InitConfig /\ [][NextConfig]_vars

\* the entries with every field a configuration can hold at position k: the
\* entry of the k-th intent, as it is or with "responses": []
LoadedEntriesAt(k) ==
    {FullEntry(Demo2Intents[k]),
     [FullEntry(Demo2Intents[k]) EXCEPT !["responses"] = <<>>]}

RECURSIVE LoadedEntryLists(_)
LoadedEntryLists(n) ==
    IF n = 0 THEN {<<>>}
    ELSE {Append(es, e) : es \in LoadedEntryLists(n - 1),
                          e \in LoadedEntriesAt(n)}

\* the configurations of a chatbot that is constructed and then talked to:
\* those above and the complete ones whose entries can have no responses
LoadedConfigs ==
    Configs
    \cup {[sections |-> RequiredSections, intents |-> es] :
            es \in UNION {LoadedEntryLists(n) : n \in 1..MaxEntries}}

InitLoad ==
    /\ FreshWith(2, <<>>)
    /\ current_context = None
    /\ config \in LoadedConfigs
    /\ ctor = NotConstructed

\* the first line typed to the chatbot the constructor returned
FirstTurn(u) ==
    /\ op = "construct"
    /\ ctor.instance
    /\ TurnWithin(u, 1)

NextLoad ==
    \/ Construct
    \/ \E u \in SessionUtterances(2) : FirstTurn(u)

SpecLoad == InitLoad /\ [][NextLoad]_vars

\* game.py runs on its own: there is no chatbot
NoChatbot ==
    /\ FreshChatbot(0, <<>>)
    /\ current_context = None
    /\ config = NoConfig
    /\ ctor = NotConstructed

\* the number of cells of b that hold mark
Count(b, mark) == Cardinality({i \in Cells : b[i] = mark})

\* the boards play_one hands to ai_move: no winner, an empty cell, and one
\* X more than O
AiBoards ==
    {b \in [Cells -> {" ", "X", "O"}] :
        /\ Count(b, "X") = Count(b, "O") + 1
        /\ winner(b) = None}

\* the answers typed at "Play again? (y/n)"
Answers == {"y", "Y", " y ", "yes", "YES", "n", "N", "no", "", "maybe"}

\* game.py at one of three points: ai_move about to be called on a board,
\* main entering play_one, and main with the result play_one returned
InitTicTacToe ==
    /\ NoChatbot
    /\ idx = NoCell
    /\ again = None
    /\ \/ /\ game_pc = "ai_move"
          /\ board \in AiBoards
          /\ turn = "O"
          /\ result = None
       \/ /\ game_pc = "play_one"
          /\ board = EmptyBoard
          /\ turn = "X"
          /\ result = None
       \/ /\ game_pc = "returned"
          /\ board = EmptyBoard
          /\ turn = "X"
          /\ result \in {"X", "O", "Draw"}

\* ai_move(board) called once
AiMoveCall ==
    /\ game_pc = "ai_move"
    /\ \E m \in {ai_move(board, "O", "X")} :
           /\ raised' = m.raised
           /\ idx' = m.ret
    /\ game_pc' = "called"
    /\ UNCHANGED <<board, turn, result, again>>
    /\ UNCHANGED <<variant, intents, current_context, user_data, history,
                   running, op, utterance, ctx_before, ud_before, scores,
                   ret_intent, ret_match, action_result, response, ctx_writes,
                   calc_match, calc_out, config, ctor, exported, analysis,
                   fill_arg>>

\* one iteration of the loop of play_one: return the winner if there is
\* one, else the human's move at a legal cell or the AI's move; an exception
\* of ai_move leaves play_one and main
PlayIteration ==
    /\ game_pc = "play_one"
    /\ IF winner(board) # None
       THEN /\ result' = winner(board)
            /\ game_pc' = "returned"
            /\ UNCHANGED <<board, turn, idx, raised>>
       ELSE IF turn = "X"
       THEN /\ \E i \in {c \in Cells : board[c] = " "} :
                  /\ idx' = i
                  /\ board' = [board EXCEPT ![i] = "X"]
            /\ turn' = "O"
            /\ UNCHANGED <<result, game_pc, raised>>
       ELSE \E m \in {ai_move(board, "O", "X")} :
              IF m.raised # None
              THEN /\ raised' = m.raised
                   /\ game_pc' = "crashed"
                   /\ UNCHANGED <<board, turn, idx, result>>
              ELSE /\ idx' = m.ret
                   /\ board' = [board EXCEPT ![m.ret] = "O"]
                   /\ turn' = "X"
                   /\ UNCHANGED <<result, game_pc, raised>>
    /\ UNCHANGED again
    /\ UNCHANGED <<variant, intents, current_context, user_data, history,
                   running, op, utterance, ctx_before, ud_before, scores,
                   ret_intent, ret_match, action_result, response, ctx_writes,
                   calc_match, calc_out, config, ctor, exported, analysis,
                   fill_arg>>

\* human_move at end of input or Ctrl+C: SystemExit
HumanQuits ==
    /\ game_pc = "play_one"
    /\ winner(board) = None
    /\ turn = "X"
    /\ game_pc' = "exited"
    /\ UNCHANGED <<board, turn, idx, result, again>>
    /\ UNCHANGED <<variant, intents, current_context, user_data, history,
                   running, op, utterance, ctx_before, ud_before, scores,
                   ret_intent, ret_match, action_result, response, raised,
                   ctx_writes, calc_match, calc_out, config, ctor, exported,
                   analysis, fill_arg>>

\* main after play_one returned: the answer to "Play again? (y/n)" ends the
\* program or starts another play_one
PlayAgain(line) ==
    /\ game_pc = "returned"
    /\ again' = strip_lower(line)
    /\ IF stops(strip_lower(line))
       THEN /\ game_pc' = "ended"
            /\ UNCHANGED <<board, turn, result>>
       ELSE /\ game_pc' = "play_one"
            /\ board' = EmptyBoard
            /\ turn' = "X"
            /\ result' = None
    /\ UNCHANGED idx
    /\ UNCHANGED <<variant, intents, current_context, user_data, history,
                   running, op, utterance, ctx_before, ud_before, scores,
                   ret_intent, ret_match, action_result, response, raised,
                   ctx_writes, calc_match, calc_out, config, ctor, exported,
                   analysis, fill_arg>>

NextTicTacToe ==
    \/ AiMoveCall
    \/ PlayIteration
    \/ HumanQuits
    \/ \E line \in Answers : PlayAgain(line)

SpecTicTacToe == InitTicTacToe /\ [][NextTicTacToe]_vars

-----------------------------------------------------------------------------
(* Properties. *)

\* the last operation was a chat turn that get_response completed
Completed == op = "turn" /\ raised = None

\* the score _score_intent gives intent i for the last utterance
ScoreOf(i) == score_intent(variant, intents[i], utterance, ctx_before).score

\* the patterns of intent i that match the last utterance
MatchingPatterns(i) ==
    {k \in 1..Len(intents[i].patterns) :
        re_search(intents[i].patterns[k], lower_text(utterance)).some}

\* the keywords of intent i found among the words of the last utterance:
\* Demo1 counts distinct keywords, Demo2 the entries of the list
KeywordHits(i) ==
    LET words == split_set(lower_text(utterance))
        kws == intents[i].keywords
    IN  IF variant = 1
        THEN Cardinality({kws[k] : k \in 1..Len(kws)} \cap words)
        ELSE Cardinality({k \in 1..Len(kws) : lower(kws[k]) \in words})

\* the pattern-plus-keyword score of intent i, in quarters
Accumulated(i) == 8 * Cardinality(MatchingPatterns(i)) + 2 * KeywordHits(i)

\* C1: classify_intent returns (None, None) if and only if every intent's
\* score is <= 0.5 (2 quarters); otherwise the returned intent's score is the
\* maximum over the catalog.
C1_ThresholdAndMaximum ==
    op = "classify" =>
        /\ raised = None
        /\ (ret_intent = 0 /\ ~ret_match.some)
             <=> (\A i \in 1..Len(intents) : ScoreOf(i) <= 2)
        /\ ret_intent = 0 \/ \A i \in 1..Len(intents) : ScoreOf(i) <= ScoreOf(ret_intent)

\* C1 witness: no intent is returned and some intent scored exactly 0.5
C1_Witness ==
    /\ op = "classify"
    /\ ret_intent = 0
    /\ \E i \in 1..Len(intents) : scores[i] = 2

\* C2: when intents share the maximum score and it is > 0.5, the returned
\* intent is the one declared earliest: every intent before it scored
\* strictly less, no intent scored more.
C2_EarliestOfTies ==
    op = "classify" /\ ret_intent # 0 =>
        /\ \A j \in 1..(ret_intent - 1) : ScoreOf(j) < ScoreOf(ret_intent)
        /\ \A j \in ret_intent..Len(intents) : ScoreOf(j) <= ScoreOf(ret_intent)

\* C2 witness: a later intent ties with the returned one
C2_Witness ==
    /\ op = "classify"
    /\ ret_intent # 0
    /\ \E j \in (ret_intent + 1)..Len(intents) : scores[j] = scores[ret_intent]

\* C3 as claimed: an intent with context_required is returned only on a turn
\* whose current context equals it.
C3_GatedIntentNeedsContext ==
    op = "turn" /\ ret_intent # 0
                /\ intents[ret_intent].context_required # None
        => ctx_before = intents[ret_intent].context_required

\* C4: _score_intent returns s + 1.0 for an intent whose context_required is
\* the current context, s * 0.5 for one whose context_required is another,
\* and s for an intent without context_required, s being the accumulated
\* pattern-plus-keyword score.
C4_ContextAdjustment ==
    op = "classify" =>
        \A i \in 1..Len(intents) :
            scores[i] = IF intents[i].context_required = None
                        THEN Accumulated(i)
                        ELSE IF ctx_before = intents[i].context_required
                        THEN Accumulated(i) + 4
                        ELSE Accumulated(i) \div 2

\* C4 witness: an intent that accumulated 2.0 scores 1.0 out of its context
C4_Witness ==
    /\ op = "classify"
    /\ \E i \in 1..Len(intents) :
        /\ intents[i].context_required # None
        /\ ctx_before # intents[i].context_required
        /\ Accumulated(i) = 8
        /\ scores[i] = 4

\* C5 as claimed: every completed turn writes current_context exactly once.
C5_OneWriteEveryTurn == Completed => ctx_writes = 1

\* C5 amended: a completed turn writes current_context once when an intent
\* fired and its action returned no response, and not at all otherwise (no
\* intent matched, or the action's response was returned); a turn without a
\* write leaves the context as it was.
C5_OneWriteOnTemplateTurns ==
    Completed =>
        /\ ctx_writes = IF ret_intent # 0 /\ Len(action_result.ret) = 0
                        THEN 1 ELSE 0
        /\ ctx_writes = 0 => current_context = ctx_before

\* C5 witness: a completed turn that wrote the context, and had one to
\* overwrite
C5_Witness ==
    /\ Completed
    /\ ctx_writes = 1
    /\ ctx_before # None

\* C6 as claimed: whenever an intent fires on a completed turn, the context
\* after the turn is its context_set, or none if it has none.
C6_ContextFollowsIntent ==
    Completed /\ ret_intent # 0 =>
        current_context = intents[ret_intent].context_set

\* C6 amended: whenever an intent fires and its action, if any, returns no
\* response, the context after the turn is the intent's context_set, or none
\* if it has none, whatever it was before; when the action returns a
\* response the context stays as it was.
C6_ContextFollowsTemplateReply ==
    Completed /\ ret_intent # 0 =>
        current_context = IF Len(action_result.ret) = 0
                          THEN intents[ret_intent].context_set
                          ELSE ctx_before

\* C6 witness: an intent with a context_set fires while another context is
\* current, and installs its own
C6_Witness ==
    /\ Completed
    /\ ret_intent # 0
    /\ ctx_before # None
    /\ intents[ret_intent].context_set # None
    /\ intents[ret_intent].context_set # ctx_before
    /\ current_context = intents[ret_intent].context_set

\* C7: a turn on which no intent matches leaves current_context and
\* user_data as they were.
C7_NoMatchKeepsState ==
    Completed /\ ret_intent = 0 =>
        /\ current_context = ctx_before
        /\ user_data = ud_before

\* C7 witness: no intent matches while a context is set and a fact is known
C7_Witness ==
    /\ Completed
    /\ ret_intent = 0
    /\ ctx_before # None
    /\ ud_before # EmptyDict

\* C8: when the matched intent's action returns a response, get_response
\* returns it template-filled and leaves current_context as it was.
C8_ActionReplyKeepsContext ==
    Completed /\ ret_intent # 0 /\ Len(action_result.ret) > 0 =>
        /\ response = fill_template(variant, user_data, action_result.ret)
        /\ current_context = ctx_before

\* C8 witness: the action of an intent with a context_set replies while
\* another context is current
C8_Witness ==
    /\ Completed
    /\ ret_intent # 0
    /\ Len(action_result.ret) > 0
    /\ ctx_before # None
    /\ intents[ret_intent].context_set # None
    /\ intents[ret_intent].context_set # ctx_before

\* C9 as claimed: an action invoked by get_response never raises, also when
\* the match is None or has fewer groups than the action reads.
C9_ActionsNeverRaise ==
    op = "turn" /\ ret_intent # 0 /\ intents[ret_intent].action # None =>
        action_result.raised = None

\* C10: _calculate never raises: for every match it returns the result
\* string or the apology, the apology exactly when the try block failed.
C10_CalculateNeverRaises ==
    op = "calculate" =>
        /\ calc_out.raised = None
        /\ IF calculate_try(calc_match).raised # None
           THEN calc_out.ret = APOLOGY
           ELSE /\ calc_out.ret # APOLOGY
                /\ Head(calc_out.ret) = "The result of"

\* C10 witness: a capture that sanitizes to nothing gives the apology
C10_Witness ==
    /\ op = "calculate"
    /\ calc_match.some
    /\ Len(calc_match.groups) > 0
    /\ tokens(sanitize(calc_match.groups[1])) = <<>>
    /\ calc_out.ret = APOLOGY

\* a pattern that compiles
Compiles(p) == p.ok

\* the catalog cat without its patterns that do not compile
WithoutBadPatterns(cat) ==
    [i \in 1..Len(cat) |->
        [cat[i] EXCEPT !.patterns = SelectSeq(@, Compiles)]]

\* the matches m and n are the same match: the same text and groups for
\* the same intent
SameMatch(m, n) ==
    /\ m.some = n.some
    /\ m.owner = n.owner
    /\ m.g0 = n.g0
    /\ m.groups = n.groups

\* the last classification gave what the catalog cat gives
ClassifiedAs(cat) ==
    \E c \in {classify_intent(variant, cat, utterance, ctx_before)} :
        /\ ret_intent = c.intent
        /\ scores = c.scores
        /\ SameMatch(ret_match, c.match)

\* C11 as claimed: with a pattern that does not compile in one intent's
\* pattern list, classify_intent completes without raising and scores and
\* classifies as if that pattern were absent, in both variants.
C11_BadPatternSkipped ==
    op = "classify" =>
        /\ raised = None
        /\ ClassifiedAs(WithoutBadPatterns(intents))

\* C11 in Demo2 only: the malformed pattern is skipped, and the result is
\* that of the catalog without it.
C11_Demo2SkipsBadPattern ==
    op = "classify" /\ variant = 2 =>
        /\ raised = None
        /\ ClassifiedAs(WithoutBadPatterns(intents))

\* C11 in Demo1: re.error leaves classify_intent, whatever the utterance.
C11_Demo1Raises ==
    op = "classify" /\ variant = 1 => raised = "re.error"

\* C11 witness: in Demo2 an intent is returned on a pattern that follows
\* the malformed one in its list
C11_Witness ==
    /\ op = "classify"
    /\ variant = 2
    /\ ret_intent # 0
    /\ ret_match.some
    /\ ~intents[ret_intent].patterns[1].ok
    /\ ret_match.pat > 1

\* the last iteration of the chat loop raised inside its try block
TurnRaised == op \in {"turn", "stats"} /\ raised # None

\* C12: an exception raised while a turn is processed is caught by the
\* loop: the loop is still running after it, and the next line is taken as
\* a turn.
C12_LoopSurvivesException ==
    TurnRaised =>
        /\ running
        /\ ENABLED ChatTurn(<<"great">>)

\* C12 witness: get_response raised in a turn and the loop goes on
C12_Witness ==
    /\ op = "turn"
    /\ raised # None
    /\ running

\* the configuration cfg lacks a required section, or one of its intent
\* entries lacks a required field
Incomplete(cfg) ==
    \/ ~(RequiredSections \subseteq cfg.sections)
    \/ \E i \in 1..Len(cfg.intents) :
            ~(RequiredFields \subseteq DOMAIN cfg.intents[i])

\* C13: in Demo2 the constructor fails on a configuration without the
\* bot_settings or intents section, or with an intent entry without name,
\* patterns or responses, before any Intent is built; a chatbot that was
\* constructed has an intent for every entry of its configuration.
C13_InvalidConfigBuildsNothing ==
    op = "construct" =>
        /\ Incomplete(config) =>
            /\ ctor.raised # None
            /\ ctor.built = <<>>
            /\ ~ctor.instance
        /\ ctor.instance => Len(intents) = Len(config.intents)

\* C13 witness: the constructor fails on a configuration whose first entry
\* is complete and whose second lacks a required field
C13_Witness ==
    /\ op = "construct"
    /\ RequiredSections \subseteq config.sections
    /\ Len(config.intents) = 2
    /\ RequiredFields \subseteq DOMAIN config.intents[1]
    /\ ~(RequiredFields \subseteq DOMAIN config.intents[2])
    /\ ctor.raised = "ValueError"

\* C14: history is append-only: a completed turn of the chat loop appends
\* one entry, of the line and the response of that turn, after the entries
\* already there, which stay as they are; every other step (an empty line,
\* the stats command, a turn that raised, an interrupt) leaves history as it
\* was.
C14_HistoryAppendOnly ==
    [][IF op' = "turn" /\ raised' = None
       THEN /\ Len(history') = Len(history) + 1
            /\ SubSeq(history', 1, Len(history)) = history
            /\ history'[Len(history')].user = utterance'
            /\ history'[Len(history')].bot = response'
            /\ \A k \in 1..Len(history) :
                    history'[Len(history')].timestamp > history[k].timestamp
       ELSE history' = history]_vars

\* C14 witness: a second exchange was appended after a first
C14_Witness ==
    /\ Completed
    /\ Len(history) = 2
    /\ history[2].user = utterance
    /\ history[1].user # utterance

\* C15 as claimed: the list get_conversation_history returned is a
\* snapshot: a turn processed after the export leaves its contents as they
\* were, and a change the collaborator makes to it leaves the
\* conversation's history as it was.
C15_ExportIsSnapshot ==
    [][/\ (exported # None /\ op' = "turn") => ExportedList' = ExportedList
       /\ op' = "pop" => history' = history]_vars

\* C15, the first half alone: turns after the export leave the exported
\* list as it was.
C15_TurnsLeaveExport ==
    [][(exported # None /\ op' = "turn") => ExportedList' = ExportedList]_vars

\* C15, the second half alone: the collaborator's change leaves history as
\* it was.
C15_CollaboratorLeavesHistory == [][op' = "pop" => history' = history]_vars

\* C16: the keys of user_data only grow: every key present before a step is
\* present after it, and user_data changes only on a chat turn whose
\* intent's action ran.
C16_UserDataKeysGrow ==
    [][/\ DOMAIN user_data \subseteq DOMAIN user_data'
       /\ user_data' # user_data =>
            /\ op' = "turn"
            /\ action_result'.acted]_vars

\* C16 witness: a turn added a second key to user_data
C16_Witness ==
    /\ Completed
    /\ Cardinality(DOMAIN user_data) = 2
    /\ Cardinality(DOMAIN ud_before) = 1
    /\ DOMAIN ud_before \subseteq DOMAIN user_data

\* the actions that store the user's name
StoreNameActions == {"store_name_lambda", "store_user_name"}

\* the last turn completed on an intent whose action stores the name
StoreNameTurn ==
    /\ Completed
    /\ ret_intent # 0
    /\ intents[ret_intent].action \in StoreNameActions

\* what {user_name} and {user_birthday} are filled with in the current state
FilledName == fill_template(variant, user_data, <<"{user_name}">>)
FilledBirthday == fill_template(variant, user_data, <<"{user_birthday}">>)

\* the words of text with their first letter in upper case
TitleCased(text) == [k \in 1..Len(text) |-> title(text[k])]

\* C17, in every state: {user_name} is filled with the stored name, and with
\* "friend" before a name is stored; in Demo2 {user_birthday} is filled
\* with "unknown" before a birthday is stored; after a turn whose action
\* stored a capture, the stored name is that capture title-cased, and the
\* response of the turn is a template of the intent filled with it.
C17_NameState ==
    /\ FilledName = IF "name" \in DOMAIN user_data THEN user_data["name"]
                    ELSE <<"friend">>
    /\ variant = 2 /\ "birthday" \notin DOMAIN user_data
            => FilledBirthday = <<"unknown">>
    /\ StoreNameTurn /\ ret_match.some /\ Len(ret_match.groups) > 0 =>
            /\ user_data["name"] = TitleCased(ret_match.groups[1])
            /\ \E t \in 1..Len(intents[ret_intent].responses) :
                    response = replace(replace(intents[ret_intent].responses[t],
                                   "{user_name}", user_data["name"]),
                                   "{bot_name}", BotName(variant))

\* C17, in every step: the stored name stays until a store-name turn
\* overwrites it.
C17_NameStep ==
    ("name" \in DOMAIN user_data /\ "name" \in DOMAIN user_data'
        /\ user_data'["name"] # user_data["name"])
    => (op' = "turn" /\ ret_intent' # 0
            /\ intents[ret_intent'].action \in StoreNameActions)

\* C17: round trip of the user's name through store-name and
\* _fill_template: the stored capture, title-cased, is what {user_name}
\* yields in that turn and in every later one until a store-name turn
\* overwrites it; "friend" and "unknown" are the defaults.
C17_NameRoundTrip == []C17_NameState /\ [][C17_NameStep]_vars

\* C17 witness: a store-name turn overwrote a stored name, and its response
\* holds the new name
C17_Witness ==
    /\ StoreNameTurn
    /\ "name" \in DOMAIN ud_before
    /\ user_data["name"] # ud_before["name"]
    /\ \E k \in 1..Len(response) : response[k] = user_data["name"][1]

\* C18: when a pattern of the returned intent matches the lower-cased
\* utterance, the returned match is that of the first such pattern in the
\* order of the intent's list, however many match.
C18_MatchOfFirstPattern ==
    op = "classify" /\ ret_intent # 0 /\ MatchingPatterns(ret_intent) # {} =>
        \E k \in MatchingPatterns(ret_intent) :
            /\ \A j \in MatchingPatterns(ret_intent) : k <= j
            /\ ret_match.some
            /\ ret_match.owner = ret_intent
            /\ ret_match.pat = k
            /\ SameMatch(ret_match,
                  [re_search(intents[ret_intent].patterns[k],
                             lower_text(utterance)) EXCEPT !.owner = ret_intent])

\* C18 witness: two patterns of the returned intent match, and the first of
\* them is not the first of the list
C18_Witness ==
    /\ op = "classify"
    /\ ret_intent # 0
    /\ Cardinality(MatchingPatterns(ret_intent)) >= 2
    /\ 1 \notin MatchingPatterns(ret_intent)

\* the distinct keywords of intent i that are among the words of the last
\* utterance
KeywordsPresent(i) ==
    {kw \in {intents[i].keywords[k] : k \in 1..Len(intents[i].keywords)} :
        lower(kw) \in split_set(lower_text(utterance))}

\* 2.0 for each matching pattern and 0.5 for each distinct keyword present,
\* in quarters
BaseScore(i) ==
    8 * Cardinality(MatchingPatterns(i)) + 2 * Cardinality(KeywordsPresent(i))

\* the score of every intent is BaseScore, context-adjusted
ScoredByBaseScore ==
    \A i \in 1..Len(intents) :
        scores[i] = context_adjust(BaseScore(i), intents[i].context_required,
                                   ctx_before)

\* C19 as claimed: before the context adjustment the score of an intent is
\* 2.0 times the number of its patterns that match plus 0.5 times the
\* number of its distinct keywords among the words of the utterance, in
\* both variants.
C19_BaseScore == op = "classify" => ScoredByBaseScore

\* C19 in Demo1 only, where the keywords are intersected as a set.
C19_Demo1BaseScore == op = "classify" /\ variant = 1 => ScoredByBaseScore

\* C19 in Demo2 over a catalog without a repeated keyword.
C19_Demo2BaseScoreNoRepeat ==
    (op = "classify" /\ variant = 2 /\ intents = Catalog(2))
        => ScoredByBaseScore

\* the numbers of distinct words of the last utterance, in lower case, that
\* are in the positive and in the negative word set
PositiveCount ==
    Cardinality({w \in split_set(lower_text(utterance)) :
                    w \in POSITIVE_WORDS(variant)})
NegativeCount ==
    Cardinality({w \in split_set(lower_text(utterance)) :
                    w \in NEGATIVE_WORDS(variant)})

\* the score of the last analysis is the fraction a / b
ScoreIs(a, b) == analysis.den > 0 /\ analysis.num * b = a * analysis.den

\* C20: with p and n the numbers of distinct utterance words in the
\* positive and negative word sets, analyze returns positive with score
\* p/(p+n+1) iff p > n, negative with score -n/(p+n+1) iff n > p and neutral
\* with score 0 iff p = n, and the magnitude of the score is below 1.
C20_SentimentScore ==
    op = "analyze" =>
        \E p \in {PositiveCount}, n \in {NegativeCount} :
            /\ analysis.sentiment \in {"positive", "negative", "neutral"}
            /\ analysis.sentiment = "positive" <=> p > n
            /\ analysis.sentiment = "negative" <=> n > p
            /\ analysis.sentiment = "neutral" <=> p = n
            /\ p > n => ScoreIs(p, p + n + 1)
            /\ n > p => ScoreIs(0 - n, p + n + 1)
            /\ p = n => ScoreIs(0, 1)
            /\ analysis.num < analysis.den
            /\ 0 - analysis.num < analysis.den

\* a text with two distinct positive words, one of them twice in two
\* spellings, has been analysed as positive: p = 2, n = 0, score 2/3
C20_Witness ==
    /\ op = "analyze"
    /\ utterance = <<"Great", "good", "great">>
    /\ analysis = [sentiment |-> "positive", num |-> 2, den |-> 3]

\* the placeholders _fill_template knows in the variant
Placeholders ==
    {"{bot_name}", "{user_name}", "{current_time}", "{current_date}"}
    \cup (IF variant = 2 THEN {"{user_birthday}"} ELSE {})

\* the current value of a placeholder
ValueOf(key) ==
    CASE key = "{bot_name}" -> BotName(variant)
      [] key = "{user_name}" ->
            IF "name" \in DOMAIN user_data THEN user_data["name"]
            ELSE <<"friend">>
      [] key = "{current_time}" -> CurrentTime
      [] key = "{current_date}" -> CurrentDate
      [] key = "{user_birthday}" ->
            IF "birthday" \in DOMAIN user_data THEN user_data["birthday"]
            ELSE <<"unknown">>

\* the text with every known placeholder replaced by its value and every
\* other piece kept
RECURSIVE Filled(_)
Filled(text) ==
    IF Len(text) = 0 THEN <<>>
    ELSE (IF Head(text) \in Placeholders THEN ValueOf(Head(text))
          ELSE <<Head(text)>>) \o Filled(Tail(text))

\* C21: _fill_template replaces every occurrence of each placeholder it
\* knows with the current value and leaves every other piece of the text,
\* an unknown placeholder included, as it was, and does not raise.
C21_FillTemplate ==
    op = "fill" => response = Filled(fill_arg) /\ raised = None

\* C21 witness: a template with the same placeholder twice and an unknown
\* one was filled in Demo2 with a stored birthday that reads as a
\* placeholder
C21_Witness ==
    /\ op = "fill"
    /\ variant = 2
    /\ fill_arg = <<"{user_birthday}", "{foo}", "{user_birthday}">>
    /\ response = <<"{bot_name}", "{foo}", "{bot_name}">>

\* the notes the save-note turns of the history h captured, in the order of
\* the turns
RECURSIVE SavedNotes(_)
SavedNotes(h) ==
    IF Len(h) = 0 THEN <<>>
    ELSE LET u == h[Len(h)].user
             earlier == SavedNotes(SubSeq(h, 1, Len(h) - 1))
         IN  IF Len(u) > 1 /\ u[1] = "note"
             THEN Append(earlier, lower_text(Tail(u)))
             ELSE earlier

\* the notes numbered from 1, one after the other
RECURSIVE NumberedLines(_)
NumberedLines(notes) ==
    IF Len(notes) = 0 THEN <<>>
    ELSE NumberedLines(SubSeq(notes, 1, Len(notes) - 1))
         \o <<ToString(Len(notes)) \o ".">> \o notes[Len(notes)]

\* the notes fact, empty when there is none
Notes == IF "notes" \in DOMAIN user_data THEN user_data["notes"] ELSE <<>>

\* C22: in Demo2 the notes fact is the list of the notes the save-note
\* turns captured, in the order saved; the show-notes action returns them
\* numbered 1..k in that order, and the fixed message when no note was
\* saved.
C22_NotesInOrder ==
    /\ Notes = SavedNotes(history)
    /\ (op = "turn" /\ utterance = <<"notes">>) =>
            /\ raised = None
            /\ action_result.acted
            /\ action_result.ret =
                    IF Notes = <<>>
                    THEN <<"You don't have any saved notes yet.">>
                    ELSE <<"Here are your saved notes:">> \o NumberedLines(Notes)

\* C22 witness: two different notes were saved and then listed
C22_Witness ==
    /\ op = "turn"
    /\ utterance = <<"notes">>
    /\ Notes = <<<<"jazz">>, <<"call", "alex">>>>
    /\ action_result.ret =
            <<"Here are your saved notes:", "1.", "jazz", "2.", "call", "alex">>

\* the show-notes action ran on a session without a note
C22_WitnessEmpty ==
    /\ op = "turn"
    /\ utterance = <<"notes">>
    /\ Notes = <<>>
    /\ action_result.ret = <<"You don't have any saved notes yet.">>

\* the favorites map of the facts ud, empty when there is none
FavoritesOf(ud) ==
    IF "favorites" \in DOMAIN ud THEN ud["favorites"] ELSE EmptyDict

\* the last turn ran the favorites action with a category and a value
FavoriteTurn ==
    /\ op = "turn"
    /\ Len(utterance) >= 3
    /\ utterance[1] = "like"

\* the key a category is recorded under
FavoriteKey(category) == IF category = "band" THEN "music" ELSE category

\* C23: in Demo2 the favorites action records the value in the favorites
\* map under the lower-cased category, the category band being recorded
\* under music and never under band, and keeps the entries of the other
\* categories.
C23_FavoritesFolded ==
    FavoriteTurn =>
        \E old \in {FavoritesOf(ud_before)}, new \in {FavoritesOf(user_data)},
           key \in {FavoriteKey(lower(utterance[2]))} :
            /\ raised = None
            /\ DOMAIN new = DOMAIN old \cup {key}
            /\ new[key] = lower_text(SubSeq(utterance, 3, Len(utterance)))
            /\ \A k \in DOMAIN old \ {key} : new[k] = old[k]
            /\ "band" \notin DOMAIN new

\* C23 witness: a favorite of the category band, typed with a capital, was
\* recorded under music next to a favorite of another category
C23_Witness ==
    /\ FavoriteTurn
    /\ utterance = <<"like", "Band", "Alex">>
    /\ FavoritesOf(ud_before) = ("math" :> <<"5">>)
    /\ FavoritesOf(user_data) = ("math" :> <<"5">>) @@ ("music" :> <<"alex">>)

\* the constructor returned a chatbot
Constructed == op \in {"construct", "turn"} /\ ctor.instance

\* on the last turn an intent fired and its action, if any, returned no
\* response
TemplateTurn ==
    /\ op = "turn"
    /\ ret_intent # 0
    /\ action_result.raised = None
    /\ action_result.ret = <<>>

\* C24, first part: every intent of a catalog the constructor accepted has
\* a response.
C24_AcceptedHaveResponses ==
    Constructed => \A i \in 1..Len(intents) : Len(intents[i].responses) > 0

\* C24, second part: selecting a response template does not fail.
C24_SelectionNeverFails == (Constructed /\ TemplateTurn) => raised = None

\* C24 as claimed: every intent of a catalog accepted at load time has a
\* non-empty response list, and on a turn where an intent fires and its
\* action returns no response, selecting a template does not fail.
C24_NonEmptyResponses == C24_AcceptedHaveResponses /\ C24_SelectionNeverFails

\* C28 as claimed: the match classify_intent returns belongs to the intent
\* it returns: it is a match of one of that intent's patterns, and it is
\* none when none of that intent's patterns matches the utterance.
C28_MatchBelongsToIntent ==
    (op \in {"classify", "turn"} /\ raised = None /\ ret_intent # 0) =>
        /\ ret_match.some => ret_match.owner = ret_intent
        /\ MatchingPatterns(ret_intent) = {} => ~ret_match.some

\* the returned match is none or a match of a pattern of some intent that
\* was the running best: the returned one or an earlier one.
C28_MatchOfRunningBest ==
    (op \in {"classify", "turn"} /\ raised = None /\ ret_intent # 0
        /\ ret_match.some) =>
        /\ ret_match.owner <= ret_intent
        /\ ret_match.pat \in MatchingPatterns(ret_match.owner)

\* the score the scorer of the other variant gives intent i on the last
\* utterance in the same context
OtherScoreOf(i) ==
    score_intent(3 - variant, intents[i], utterance, ctx_before).score

\* the keyword list has no entry twice and no entry in upper case
PlainKeywords(keywords) ==
    /\ \A j, k \in 1..Len(keywords) : keywords[j] = keywords[k] => j = k
    /\ \A k \in 1..Len(keywords) : lower(keywords[k]) = keywords[k]

\* C29 as claimed: the two _score_intent implementations give every intent
\* whose patterns compile the same score on every utterance in every
\* context, keyword lists with repeated or upper-case entries included.
C29_ScorersEquivalent ==
    op = "classify" =>
        \A i \in 1..Len(intents) : scores[i] = OtherScoreOf(i)

\* the two implementations agree on the intents whose keyword list has no
\* repeated and no upper-case entry.
C29_EquivalentOnPlainKeywords ==
    op = "classify" =>
        \A i \in 1..Len(intents) :
            PlainKeywords(intents[i].keywords) => scores[i] = OtherScoreOf(i)

\* C30 as claimed: a turn that raises inside get_response leaves the
\* history, the current context and the user data as they were before the
\* turn.
C30_RaisingTurnKeepsState ==
    [][(op' = "turn" /\ raised' # None) =>
            /\ history' = history
            /\ current_context' = current_context
            /\ user_data' = user_data]_vars

\* a raising turn leaves the history and the current context as they were.
C30_RaisingTurnKeepsHistoryAndContext ==
    [][(op' = "turn" /\ raised' # None) =>
            /\ history' = history
            /\ current_context' = current_context]_vars

\* C25 as claimed: on a board with an empty cell and no winner ai_move
\* returns an empty cell, one that wins at once for the AI if there is one,
\* otherwise one that blocks the human's win at once if there is one.
C25_AiMoveRules ==
    game_pc = "called" =>
        /\ raised = None
        /\ idx \in Cells
        /\ board[idx] = " "
        /\ (\E i \in Cells : board[i] = " "
                /\ winner([board EXCEPT ![i] = "O"]) = "O")
            => winner([board EXCEPT ![idx] = "O"]) = "O"
        /\ (/\ ~\E i \in Cells : board[i] = " "
                    /\ winner([board EXCEPT ![i] = "O"]) = "O"
            /\ \E i \in Cells : board[i] = " "
                    /\ winner([board EXCEPT ![i] = "X"]) = "X")
            => winner([board EXCEPT ![idx] = "X"]) = "X"

\* ai_move raises IndexError on every board it is called on.
C25_AiMoveRaises ==
    game_pc = "called" => raised = "IndexError" /\ idx = NoCell

\* C26 as claimed, its safety part: play_one ends only by returning 'X',
\* 'O' or 'Draw', with at most nine marks on the board, X and O placed in
\* turn starting with X.
C26_PlayOneReturns ==
    /\ game_pc # "crashed"
    /\ game_pc = "play_one" =>
            /\ raised = None
            /\ Count(board, "X") + Count(board, "O") <= 9
            /\ Count(board, "X") - Count(board, "O")
                    = (IF turn = "O" THEN 1 ELSE 0)
    /\ game_pc = "returned" => result \in {"X", "O", "Draw"}

\* play_one never outlasts the human's first move: the AI never places a
\* mark.
C26_NoMarkOfAi == game_pc \in {"play_one", "crashed"} => Count(board, "O") = 0

C27_EveryAnswerEnds == [][game_pc = "returned" => game_pc' = "ended"]_vars

====
